---------------------------- MODULE Spec2Model ----------------------------
(***************************************************************************)
(* A model of the HTKK template engine of huythanhnguyen/taxadk:           *)
(*   - HTKKXMLParser   (src/frontend/src/services/htkk-parser.ts)          *)
(*   - HTKKFormEngine  (src/frontend/src/services/htkk-form-engine.ts)     *)
(*                                                                         *)
(* Text is modelled at two grains.  Identifiers that the code only copies *)
(* and compares (CellID, Path, TableName, form values used as opaque data) *)
(* are TLA+ strings.  Text that the code converts or matches character by  *)
(* character (Controltype, MaxLen, Location numbers, the cache fingerprint,*)
(* tax codes) is a sequence of one-character strings or of char codes.     *)
(* getAttribute's null and the empty attribute "" are both falsy and the   *)
(* code only ever tests attribute truthiness (`!x`, `x || d`, `x === '1'`),*)
(* so an absent attribute is the empty string / the empty sequence.        *)
(* An optional number (number | undefined) is <<>> or <<n>>.               *)
(***************************************************************************)
EXTENDS Integers, Sequences, FiniteSets, TLC

\* ------------------------------------------------------------------------
\* Bounds of the model
\* ------------------------------------------------------------------------

\* Number of concurrent callers of the shared parser instance.
NumCallers == 2

\* Total number of parseTemplate calls started in one behaviour.
MaxCalls == 2

\* ------------------------------------------------------------------------
\* JavaScript primitives
\* ------------------------------------------------------------------------

NoAttr == ""
NoText == <<>>
\* parseInt's NaN, a value no digit string of the model denotes.
NaN == 0 - 999999

Digits == <<"0", "1", "2", "3", "4", "5", "6", "7", "8", "9">>

IsDigit(ch) == \E d \in 1..10 : Digits[d] = ch

DigitVal(ch) == (CHOOSE d \in 1..10 : Digits[d] = ch) - 1

IsSpace(ch) == ch = " "

RECURSIVE SkipSpaces(_)
SkipSpaces(s) ==
    IF s # <<>> /\ IsSpace(Head(s)) THEN SkipSpaces(Tail(s)) ELSE s

\* The value of the longest prefix of digits of s, continuing from acc.
RECURSIVE DigitRun(_, _)
DigitRun(s, acc) ==
    IF s # <<>> /\ IsDigit(Head(s))
    THEN DigitRun(Tail(s), acc * 10 + DigitVal(Head(s)))
    ELSE acc

\* parseInt(s): leading blanks, an optional sign, then the longest run of
\* digits; NaN when there is no digit.
ParseInt(s) ==
    LET t == SkipSpaces(s)
        neg == t # <<>> /\ Head(t) = "-"
        u == IF t # <<>> /\ Head(t) \in {"-", "+"} THEN Tail(t) ELSE t
    IN  IF u = <<>> \/ ~IsDigit(Head(u)) THEN NaN
        ELSE IF neg THEN 0 - DigitRun(u, 0) ELSE DigitRun(u, 0)

\* value.trim() === ''
IsBlank(s) == SkipSpaces(s) = <<>>

\* ------------------------------------------------------------------------
\* HTKKControlType (src/unnamed/part_002, the htkk-schema types)
\* ------------------------------------------------------------------------

TEXT == 0
CHECKBOX == 2
DEPENDENT_DROPDOWN == 6
DATE == 14
NUMBER == 16
TAX_CODE == 26
PROVINCE_DROPDOWN == 100
WARD_DROPDOWN == 101
COUNTRY_DROPDOWN == 56
HIDDEN == 999

\* ------------------------------------------------------------------------
\* HTKKXMLParser: field level
\* ------------------------------------------------------------------------

parseControlType(controlTypeStr) ==
    LET controlTypeNum == ParseInt(controlTypeStr)
    IN  CASE controlTypeNum = 0 -> TEXT
          [] controlTypeNum = 2 -> CHECKBOX
          [] controlTypeNum = 6 -> DEPENDENT_DROPDOWN
          [] controlTypeNum = 14 -> DATE
          [] controlTypeNum = 16 -> NUMBER
          [] controlTypeNum = 26 -> TAX_CODE
          [] controlTypeNum = 56 -> COUNTRY_DROPDOWN
          [] controlTypeNum = 100 -> PROVINCE_DROPDOWN
          [] controlTypeNum = 101 -> WARD_DROPDOWN
          [] OTHER -> TEXT   \* console.warn only: nothing reaches `warnings`

parseOptionalInt(value) ==
    IF value = NoText \/ IsBlank(value) THEN <<>>
    ELSE IF ParseInt(value) = NaN THEN <<>> ELSE <<ParseInt(value)>>

\* parseRequiredInt throws on missing or non-numeric text.
parseRequiredIntThrows(value) ==
    value = NoText \/ IsBlank(value) \/ ParseInt(value) = NaN

\* parseOptionalValue: string | number | undefined.  The attribute texts of
\* the model hold no '.', 'e' or 'Infinity', on which parseFloat and parseInt
\* differ; a text that is no number is kept as a string.
parseOptionalValue(value) ==
    IF value = NoText \/ IsBlank(value) THEN [kind |-> "undefined", num |-> 0]
    ELSE IF ParseInt(value) # NaN THEN [kind |-> "number", num |-> ParseInt(value)]
    ELSE [kind |-> "string", num |-> 0]

\* A <Cell> element: the attributes the engine reads.
CellElem(cellId, path, controltype, maxLen, minValue, maxValue, parentCell, childCell) ==
    [CellID |-> cellId, Path |-> path, Controltype |-> controltype,
     MaxLen |-> maxLen, MinValue |-> minValue, MaxValue |-> maxValue,
     ParentCell |-> parentCell, ChildCell |-> childCell]

\* The message of the Error parseField throws, "" when it returns a field.
parseFieldThrows(cellElement) ==
    IF cellElement.CellID = NoAttr THEN "CellID is required"
    ELSE IF cellElement.Path = NoAttr THEN "Path is required"
    ELSE IF cellElement.Controltype = NoText THEN "Controltype is required"
    ELSE ""

\* The HTKKField parseField returns (when it does not throw).  Attributes
\* that no operation of the model reads (CellID2, Encode, Value,
\* DefaultValue, HelpContextID, SelectedValue, StatusID) are left out.
parseField(cellElement) ==
    [cellId |-> cellElement.CellID,
     path |-> cellElement.Path,
     controlType |-> parseControlType(cellElement.Controltype),
     maxLen |-> parseOptionalInt(cellElement.MaxLen),
     minValue |-> parseOptionalValue(cellElement.MinValue),
     maxValue |-> parseOptionalValue(cellElement.MaxValue),
     parentCell |-> cellElement.ParentCell,
     childCell |-> cellElement.ChildCell,
     value |-> NoText]

\* ------------------------------------------------------------------------
\* HTKKXMLParser: section level
\* ------------------------------------------------------------------------

\* An error message is the sequence of the fragments of its template literal.
Msg(prefix, text) == <<prefix, text>>

\* A <Location> element: the text of its five children (NoText when absent).
LocationElem(tt, tr, dt, dr, dk) ==
    [TableTemplateRowStart |-> tt, TableReportRowStart |-> tr,
     DataLocationTemplateRowStart |-> dt, DataLocationReportRowStart |-> dr,
     DataLocationTaiBangKeRowStart |-> dk]

\* A <Section> element.  Location and RowInfo are <<>> when the element has
\* no such child and <<x>> when it has; Cells is the list of the <Cell>
\* children of its <Cells> child (empty when there is none: the code makes no
\* difference).  rowInfoFirst tells whether <RowInfo> precedes <Cells> in
\* the document.
SectionElem(dynamic, maxRows, tableName, tablePath, id, location, cells, rowInfo, rowInfoFirst) ==
    [Dynamic |-> dynamic, MaxRows |-> maxRows, TableName |-> tableName,
     TablePath |-> tablePath, id |-> id, Location |-> location,
     Cells |-> cells, RowInfo |-> rowInfo, rowInfoFirst |-> rowInfoFirst]

parseLocationThrows(locationElement) ==
    \/ parseRequiredIntThrows(locationElement.TableTemplateRowStart)
    \/ parseRequiredIntThrows(locationElement.TableReportRowStart)
    \/ parseRequiredIntThrows(locationElement.DataLocationTemplateRowStart)
    \/ parseRequiredIntThrows(locationElement.DataLocationReportRowStart)
    \/ parseRequiredIntThrows(locationElement.DataLocationTaiBangKeRowStart)

\* The message parseLocation's first failing parseRequiredInt throws.
parseRequiredIntMessage(value) ==
    IF value = NoText \/ IsBlank(value) THEN "Required integer value is missing"
    ELSE "Invalid integer value"

parseLocationMessage(locationElement) ==
    LET texts == <<locationElement.TableTemplateRowStart,
                   locationElement.TableReportRowStart,
                   locationElement.DataLocationTemplateRowStart,
                   locationElement.DataLocationReportRowStart,
                   locationElement.DataLocationTaiBangKeRowStart>>
        first == CHOOSE i \in 1..5 :
                    /\ parseRequiredIntThrows(texts[i])
                    /\ \A j \in 1..(i - 1) : ~parseRequiredIntThrows(texts[j])
    IN  parseRequiredIntMessage(texts[first])

parseLocation(locationElement) ==
    [tableTemplateRowStart |-> ParseInt(locationElement.TableTemplateRowStart),
     tableReportRowStart |-> ParseInt(locationElement.TableReportRowStart),
     dataLocationTemplateRowStart |-> ParseInt(locationElement.DataLocationTemplateRowStart),
     dataLocationReportRowStart |-> ParseInt(locationElement.DataLocationReportRowStart),
     dataLocationTaiBangKeRowStart |-> ParseInt(locationElement.DataLocationTaiBangKeRowStart)]

\* The loop over the <Cell> elements of one container: the fields of the
\* cells parseField accepts, in order (a cell that throws is skipped).
RECURSIVE ParsedCells(_)
ParsedCells(cellElements) ==
    IF cellElements = <<>> THEN <<>>
    ELSE IF parseFieldThrows(Head(cellElements)) = ""
         THEN <<parseField(Head(cellElements))>> \o ParsedCells(Tail(cellElements))
         ELSE ParsedCells(Tail(cellElements))

\* ... and the errors its catch clause pushes, in order.
RECURSIVE CellErrors(_, _)
CellErrors(cellElements, prefix) ==
    IF cellElements = <<>> THEN <<>>
    ELSE IF parseFieldThrows(Head(cellElements)) = ""
         THEN CellErrors(Tail(cellElements), prefix)
         ELSE <<Msg(prefix, parseFieldThrows(Head(cellElements)))>>
                  \o CellErrors(Tail(cellElements), prefix)

\* parseSection throws exactly when its <Location> cannot be parsed (before
\* any cell is looked at).
parseSectionThrows(sectionElement) ==
    /\ sectionElement.Location # <<>>
    /\ parseLocationThrows(sectionElement.Location[1])

\* parseInt(getAttribute('MaxRows') || '0')
parseMaxRows(text) == IF text = NoText THEN 0 ELSE ParseInt(text)

\* The HTKKSection parseSection returns (when it does not throw).
parseSection(sectionElement) ==
    [dynamic |-> sectionElement.Dynamic = "1",
     maxRows |-> parseMaxRows(sectionElement.MaxRows),
     tableName |-> sectionElement.TableName,
     tablePath |-> sectionElement.TablePath,
     id |-> sectionElement.id,
     location |-> IF sectionElement.Location = <<>> THEN <<>>
                  ELSE <<parseLocation(sectionElement.Location[1])>>,
     cells |-> ParsedCells(sectionElement.Cells),
     rowInfo |-> IF sectionElement.RowInfo = <<>> THEN <<>>
                 ELSE <<ParsedCells(sectionElement.RowInfo[1])>>]

\* The errors parseSection pushes: those of <Cells> first, then those of
\* <RowInfo>, whatever their order in the document.
parseSectionErrors(sectionElement) ==
    CellErrors(sectionElement.Cells, "Error parsing cell: ")
      \o (IF sectionElement.RowInfo = <<>> THEN <<>>
          ELSE CellErrors(sectionElement.RowInfo[1], "Error parsing row info cell: "))

\* One turn of the loop of parseSections on element sectionElement: the
\* sections and errors afterwards.
parseSectionsStep(sectionElement, sections, errors) ==
    IF parseSectionThrows(sectionElement)
    THEN [sections |-> sections,
          errors |-> Append(errors, Msg("Error parsing section: ",
                                        parseLocationMessage(sectionElement.Location[1])))]
    ELSE [sections |-> Append(sections, parseSection(sectionElement)),
          errors |-> errors \o parseSectionErrors(sectionElement)]

\* ------------------------------------------------------------------------
\* HTKKXMLParser: validateTemplate
\* ------------------------------------------------------------------------

\* Number(v) > Number(w) for two parseOptionalValue results that are not
\* undefined: false as soon as one is a string that is no number (NaN).
NumberGreater(v, w) ==
    v.kind = "number" /\ w.kind = "number" /\ v.num > w.num

\* The errors validateField (of the parser) collects for one field.
parserFieldErrors(field) ==
    (IF field.cellId = NoAttr THEN <<"CellID is required">> ELSE <<>>)
      \o (IF field.path = NoAttr THEN <<"Path is required">> ELSE <<>>)
      \o (IF /\ field.controlType = NUMBER
             /\ field.minValue.kind # "undefined"
             /\ field.maxValue.kind # "undefined"
             /\ NumberGreater(field.minValue, field.maxValue)
          THEN <<"MinValue cannot be greater than MaxValue">> ELSE <<>>)
      \o (IF field.controlType = DEPENDENT_DROPDOWN /\ field.parentCell = NoAttr
          THEN <<"Dependent dropdown must have parentCell">> ELSE <<>>)

\* ... and the warnings.
parserFieldWarnings(field) ==
    IF /\ field.controlType = TAX_CODE
       /\ field.maxLen # <<>>
       /\ field.maxLen[1] # 0
       /\ field.maxLen[1] # 14
    THEN <<"Tax code fields typically have maxLen of 14">> ELSE <<>>

\* The fields validateSection visits: section.dynamic ? (rowInfo || []) : cells
sectionFields(section) ==
    IF section.dynamic
    THEN (IF section.rowInfo = <<>> THEN <<>> ELSE section.rowInfo[1])
    ELSE section.cells

\* The errors validateSection pushes to the template-level list.
validateSectionErrors(section) ==
    IF ~section.dynamic THEN <<>>
    ELSE (IF section.tableName = NoAttr
          THEN <<<<"Dynamic section must have tableName">>>> ELSE <<>>)
      \o (IF section.tablePath = NoAttr
          THEN <<<<"Dynamic section must have tablePath">>>> ELSE <<>>)
      \o (IF section.rowInfo = <<>> \/ section.rowInfo[1] = <<>>
          THEN <<<<"Dynamic section must have rowInfo">>>> ELSE <<>>)

RECURSIVE MapSeq(_, _)
MapSeq(Op(_), seq) ==
    IF seq = <<>> THEN <<>> ELSE <<Op(Head(seq))>> \o MapSeq(Op, Tail(seq))

RECURSIVE FlatMap(_, _)
FlatMap(Op(_), seq) ==
    IF seq = <<>> THEN <<>> ELSE Op(Head(seq)) \o FlatMap(Op, Tail(seq))

\* All the fields of a template in the order validateTemplate visits them.
templateFields(template) == FlatMap(sectionFields, template.sections)

\* A Record<path, string[]> filled by `rec[field.path] = list` for every field
\* whose list is not empty, in order: the last such field of a path wins.
PathRecord(fields, List(_)) ==
    LET hit == {i \in 1..Len(fields) : List(fields[i]) # <<>>}
    IN  [p \in {fields[i].path : i \in hit} |->
            List(fields[CHOOSE i \in hit :
                          /\ fields[i].path = p
                          /\ \A j \in hit : fields[j].path = p => j <= i])]

validateTemplateErrors(template) ==
    (IF template.version = NoAttr THEN <<<<"Template version is required">>>> ELSE <<>>)
      \o (IF template.formCode = NoAttr THEN <<<<"Form code is required">>>> ELSE <<>>)
      \o (IF template.sections = <<>>
          THEN <<<<"Template must have at least one section">>>> ELSE <<>>)
      \o FlatMap(validateSectionErrors, template.sections)

Max(a, b) == IF a >= b THEN a ELSE b

\* validateTemplate.  The local `warnings` list is never written, so
\* warningCount is 0; field errors go to fieldErrors only and are not counted.
validateTemplate(template) ==
    LET errors == validateTemplateErrors(template)
    IN  [isValid |-> errors = <<>>,
         fieldErrors |-> PathRecord(templateFields(template), parserFieldErrors),
         fieldWarnings |-> PathRecord(templateFields(template), parserFieldWarnings),
         businessRuleErrors |-> errors,
         crossFieldErrors |-> <<>>,
         complianceErrors |-> <<>>,
         missingRequiredFields |-> <<>>,
         calculationErrors |-> <<>>,
         errorCount |-> Len(errors),
         warningCount |-> 0,
         validationScore |-> Max(0, 100 - Len(errors) * 10 - 0 * 2)]

\* ------------------------------------------------------------------------
\* HTKKXMLParser: the cache key
\* ------------------------------------------------------------------------

\* One turn of the loop of getCacheKey on a 32-bit hash kept as its two
\* 16-bit halves <<hi, lo>>: hash = ((hash << 5) - hash) + char, then
\* hash & hash (ToInt32).  (hash << 5) - hash is 31 * hash modulo 2^32.
hashStep(hash, char) ==
    LET lo == 31 * hash[2] + char
        hi == 31 * hash[1] + (lo \div 65536)
    IN  <<hi % 65536, lo % 65536>>

RECURSIVE hashLoop(_, _)
hashLoop(hash, str) ==
    IF str = <<>> THEN hash ELSE hashLoop(hashStep(hash, Head(str)), Tail(str))

\* The char codes of the form codes of the model.
FormCodes == {"01/GTGT", "03/TNDN"}

formCodeChars(formCode) ==
    IF formCode = "01/GTGT" THEN <<48, 49, 47, 71, 84, 71, 84>>
    ELSE <<48, 51, 47, 84, 78, 68, 78>>

\* getCacheKey: `${formCode}_${hash}` of the hash of xmlContent + formCode.
getCacheKey(xmlContent, formCode) ==
    <<formCode, hashLoop(<<0, 0>>, xmlContent \o formCodeChars(formCode))>>

\* ------------------------------------------------------------------------
\* Template documents
\* ------------------------------------------------------------------------

\* A document: xmlContent (its text, cut down to a short tag of char codes:
\* getCacheKey reads nothing else of it) and what DOMParser makes of that
\* text: whether it is well-formed, the root tag, the Version attribute and
\* the <Section> elements in document order.
Doc(xmlContent, wellFormed, root, version, sections) ==
    [xmlContent |-> xmlContent, wellFormed |-> wellFormed, root |-> root,
     Version |-> version, sections |-> sections]

Cell(cellId, path, controltype) ==
    CellElem(cellId, path, controltype, NoText, NoText, NoText, NoAttr, NoAttr)

StaticSection(cells) ==
    SectionElem("0", NoText, NoAttr, NoAttr, NoAttr, <<>>, cells, <<>>, FALSE)

GoodCellP == Cell("P_4", "tt/ma_NganhNghe", <<"0">>)
GoodCellQ == Cell("Q_4", "tt/ten_NganhNghe", <<"0">>)
TaxCodeCell ==
    CellElem("T_1", "tt/mst", <<"2", "6">>, <<"1", "4">>, NoText, NoText, NoAttr, NoAttr)
UnknownTypeCell == Cell("X_1", "tt/other", <<"9", "9", "9", "9">>)
NoPathCell == Cell("P_5", NoAttr, <<"0">>)
NoCellIDCell == Cell(NoAttr, "tt/ct23", <<"0">>)
NoControltypeCell == Cell("J_40", "tt/ct24", NoText)
RowNoPathCell == Cell("R_7", NoAttr, <<"1", "6">>)
RowCell == Cell("R_1", "tenLKet", <<"0">>)
ProvinceCell ==
    CellElem("A_1", "tt/tenTinh", <<"1", "0", "0">>, NoText, NoText, NoText, NoAttr, "A_2")
WardCell ==
    CellElem("A_2", "tt/tenHuyen", <<"1", "0", "1">>, NoText, NoText, NoText, "A_1", NoAttr)
NumberCell ==
    CellElem("N_1", "tt/ct23", <<"1", "6">>, NoText, <<"0">>, <<"2", "0", "0">>, NoAttr, NoAttr)

CycleCellD ==
    CellElem("D_1", "tt/loai", <<"6">>, NoText, NoText, NoText, "D_2", NoAttr)
CycleCellE ==
    CellElem("D_2", "tt/nhom", <<"6">>, NoText, NoText, NoText, "D_1", "Z_9")
MinOverMaxCell ==
    CellElem("N_2", "tt/ct25", <<"1", "6">>, NoText, <<"2", "0", "0">>, <<"5">>,
             NoAttr, NoAttr)

\* Two dropdowns that depend on another field and declare no ParentCell.
OrphanDependentCell == Cell("D_5", "tt/phuong", <<"6">>)
OrphanWardCell == Cell("A_7", "tt/xa", <<"1", "0", "1">>)

\* One cell per control-type code of the schema.
CatalogueCells ==
    <<Cell("K_0", "k/text", <<"0">>),
      Cell("K_2", "k/checkbox", <<"2">>),
      CellElem("K_6", "k/dependent", <<"6">>, NoText, NoText, NoText, "K_0", NoAttr),
      Cell("K_14", "k/date", <<"1", "4">>),
      Cell("K_16", "k/number", <<"1", "6">>),
      Cell("K_26", "k/taxcode", <<"2", "6">>),
      Cell("K_56", "k/country", <<"5", "6">>),
      Cell("K_100", "k/province", <<"1", "0", "0">>),
      Cell("K_101", "k/ward", <<"1", "0", "1">>),
      Cell("K_999", "k/hidden", <<"9", "9", "9">>)>>

GoodLocation == LocationElem(<<"5">>, <<"7">>, <<"5">>, <<"7">>, <<"-", "1">>)
BadLocation == LocationElem(<<"5">>, NoText, <<"5">>, <<"7">>, <<"-", "1">>)

DynamicSection(location, cells, rowInfo, rowInfoFirst) ==
    SectionElem("1", <<"2">>, "03_01", "PL/Muc_I/CTiet", "S2", location,
                cells, <<rowInfo>>, rowInfoFirst)

Docs ==
    << \* 1: a template without defect
       Doc(<<71>>, TRUE, "Sections", "480",
           <<StaticSection(<<TaxCodeCell, ProvinceCell, WardCell, NumberCell>>),
             DynamicSection(<<GoodLocation>>, <<>>, <<RowCell>>, FALSE)>>),
       \* 2: a field with an unrecognized control-type code
       Doc(<<85>>, TRUE, "Sections", "480",
           <<StaticSection(<<GoodCellP, UnknownTypeCell>>)>>),
       \* 3: a field without Path between two good fields
       Doc(<<80>>, TRUE, "Sections", "480",
           <<StaticSection(<<GoodCellP, NoPathCell, GoodCellQ>>)>>),
       \* 4: defective fields in two sections
       Doc(<<77>>, TRUE, "Sections", NoAttr,
           <<StaticSection(<<NoCellIDCell, GoodCellP, NoControltypeCell>>),
             DynamicSection(<<GoodLocation>>, <<>>, <<RowNoPathCell, RowCell>>, FALSE)>>),
       \* 5: another root element
       Doc(<<82>>, TRUE, "HSoThueDTu", "480",
           <<StaticSection(<<GoodCellP>>)>>),
       \* 6: text that is not well-formed XML
       Doc(<<60>>, FALSE, "parsererror", NoAttr, <<>>),
       \* 7: a root without sections
       Doc(<<83>>, TRUE, "Sections", "480", <<>>),
       \* 8: a section whose <RowInfo> precedes its <Cells>, a defect in each
       Doc(<<79>>, TRUE, "Sections", "480",
           <<DynamicSection(<<>>, <<NoCellIDCell>>, <<RowNoPathCell, RowCell>>, TRUE)>>),
       \* 9: a section whose <Location> lacks a child, before a defective field
       Doc(<<76>>, TRUE, "Sections", "480",
           <<DynamicSection(<<BadLocation>>, <<>>, <<RowNoPathCell>>, FALSE),
             StaticSection(<<GoodCellP>>)>>),
       \* 10, 11: two templates whose texts differ in "Aa" / "BB" only
       Doc(<<65, 97>>, TRUE, "Sections", "480",
           <<StaticSection(<<Cell("Aa", "tt/ma_NganhNghe", <<"0">>)>>)>>),
       Doc(<<66, 66>>, TRUE, "Sections", "480",
           <<StaticSection(<<Cell("BB", "tt/ma_NganhNghe", <<"0">>)>>)>>),
       \* 12: a dynamic section without MaxRows (maxRows = 0: no limit)
       Doc(<<90>>, TRUE, "Sections", "480",
           <<SectionElem("1", NoText, "03_02", "PL/Muc_II/CTiet", "S3", <<>>,
                         <<>>, <<<<RowCell>>>>, FALSE)>>),
       \* 13: a template with a single tax code field
       Doc(<<84>>, TRUE, "Sections", "480", <<StaticSection(<<TaxCodeCell>>)>>),
       \* 14: two dropdowns that are each other's parent, one of them with a
       \* child that is no field of the template
       Doc(<<68>>, TRUE, "Sections", "480",
           <<StaticSection(<<CycleCellD, CycleCellE>>)>>),
       \* 15: a number field whose MinValue is greater than its MaxValue
       Doc(<<78>>, TRUE, "Sections", "480", <<StaticSection(<<MinOverMaxCell>>)>>),
       \* 16: one field per code of the control-type catalogue
       Doc(<<67>>, TRUE, "Sections", "480", <<StaticSection(CatalogueCells)>>),
       \* 17: a dependent dropdown and a ward dropdown without ParentCell
       Doc(<<81>>, TRUE, "Sections", "480",
           <<StaticSection(<<OrphanDependentCell, OrphanWardCell>>)>>),
       \* 18: the same <Cell> twice (same CellID, same Path)
       Doc(<<50>>, TRUE, "Sections", "480",
           <<StaticSection(<<TaxCodeCell, TaxCodeCell>>)>>),
       \* 19, 20: two texts that differ in the name of the root only, in the
       \* start tag and in the end tag: <Sections> and <SectiooT> ("ns" / "oT")
       Doc(<<110, 115, 110, 115>>, TRUE, "Sections", "480",
           <<StaticSection(<<GoodCellP>>)>>),
       Doc(<<111, 84, 111, 84>>, TRUE, "SectiooT", "480",
           <<StaticSection(<<GoodCellP>>)>>)
    >>

DocIds == 1..Len(Docs)

\* ------------------------------------------------------------------------
\* HTKKXMLParser.parseTemplate as a state machine
\* ------------------------------------------------------------------------

VARIABLES
    config,         \* the ParserConfig of the shared parser instance
    templateCache,  \* Map<string, HTKKTemplate>
    cacheOrder,     \* the keys of templateCache in insertion order
    call,           \* per caller: the parseTemplate call it is in, if any
    started,        \* number of calls started so far
    returned        \* the ParseResults returned so far, with their arguments

parserVars == <<config, templateCache, cacheOrder, call, started, returned>>

\* The state of the form engine (one form being filled in).
VARIABLES
    structure,  \* the FormStructure the form was rendered to
    formData,       \* HTKKFormData.data: path -> value
    dynamicData,    \* HTKKFormData.dynamicData: table path -> rows
    validationRules, \* the rule registry of the engine: formCode -> rules
    engineOp,       \* the validateForm / exportToXML call in progress
    edits,          \* number of edits so far
    lastReport,     \* <<>> or <<the last validateForm call and its report>>
    lastExport      \* <<>> or <<the last exportToXML call and its result>>

engineVars == <<structure, formData, dynamicData, validationRules, engineOp, edits,
               lastReport, lastExport>>

\* The state of the template loading of the engine (HTKKFormEngine.loadTemplate
\* over HTKKXMLParser.loadTemplate).
VARIABLES
    templates,      \* HTKKFormEngine.templates: Map<string, HTKKTemplate>
    load,           \* per caller: the loadTemplate call it is in, if any
    loaded,         \* the ParseResults HTKKXMLParser.loadTemplate has returned
    engineLoaded    \* the outcomes of HTKKFormEngine.loadTemplate so far

loaderVars == <<templates, load, loaded, engineLoaded>>

\* The state of the auto-fill of the form (HTKKFormEngine.applyFieldMapping
\* writes to the fields of `structure`).
VARIABLES
    lastAutoFill    \* <<>> or <<the last applyFieldMapping call and its result>>

mappingVars == <<lastAutoFill>>

\* The state of the document storage (CloudflareR2Service) and its clock.
VARIABLES
    now,            \* Date.now(), in milliseconds since the service was built
    uploads,        \* the uploadDocument calls so far; a file id is an index
    cleanupJobs,    \* CloudflareR2Service.cleanupJobs, in insertion order
    timers,         \* the pending setTimeout callbacks of scheduleCleanup
    nextCleanup,    \* the time of the next setInterval callback
    jobsToRun,      \* the jobs runCleanupJobs has still to delete
    deleting,       \* the deleteDocument calls in progress
    r2Uploaded,     \* the <<fileId, bucket>> performR2Upload was called with
    r2Deleted       \* the <<fileId, bucket>> performR2Delete was called with

storageVars == <<now, uploads, cleanupJobs, timers, nextCleanup, jobsToRun, deleting,
                r2Uploaded, r2Deleted>>

\* The state outside the parser, the form and the template loading.
laterVars == <<mappingVars, storageVars>>

\* The state outside the parser and the form.
restVars == <<loaderVars, laterVars>>

vars == <<config, templateCache, cacheOrder, call, started, returned,
          structure, formData, dynamicData, validationRules, engineOp, edits,
          lastReport, lastExport,
          templates, load, loaded, engineLoaded,
          lastAutoFill,
          now, uploads, cleanupJobs, timers, nextCleanup, jobsToRun, deleting,
          r2Uploaded, r2Deleted>>

Callers == 1..NumCallers

Idle == [pc |-> "idle", doc |-> 0, formCode |-> "", next |-> 0,
         sections |-> <<>>, errors |-> <<>>]

ParseResult(success, template, errors, warnings) ==
    [success |-> success, template |-> template, errors |-> errors,
     warnings |-> warnings]

\* `template` of a ParseResult is <<>> (undefined) or <<t>>.
Return(c, d, f, result) ==
    /\ returned' = returned \cup {[doc |-> d, formCode |-> f, result |-> result]}
    /\ call' = [call EXCEPT ![c] = Idle]

keyOf(d, f) == getCacheKey(Docs[d].xmlContent, f)

cacheHit(d, f) == config.cacheTemplates /\ keyOf(d, f) \in DOMAIN templateCache

ParserInit ==
    /\ config \in [validateOnParse : BOOLEAN, cacheTemplates : BOOLEAN]
    /\ templateCache = <<>>
    /\ cacheOrder = <<>>
    /\ call = [c \in Callers |-> Idle]
    /\ started = 0
    /\ returned = {}

\* The ParseResult of lines 67-73.
cacheHitResult(d, f) ==
    ParseResult(TRUE, <<templateCache[keyOf(d, f)]>>, <<>>,
                <<<<"Template loaded from cache">>>>)

\* parseTemplate, lines 63-74: the key is in the cache.
CallCacheHitStep(c, d, f) ==
    /\ call[c].pc = "idle"
    /\ started < MaxCalls
    /\ cacheHit(d, f)
    /\ started' = started + 1
    /\ Return(c, d, f, cacheHitResult(d, f))
    /\ UNCHANGED <<config, templateCache, cacheOrder>>

CallCacheHit(c, d, f) ==
    /\ CallCacheHitStep(c, d, f)
    /\ UNCHANGED engineVars
    /\ UNCHANGED restVars

\* parseTemplate, lines 76-92: parsererror or a root that is not <Sections>.
rejectResult(d) ==
    ParseResult(FALSE, <<>>,
                IF ~Docs[d].wellFormed
                THEN <<Msg("XML parsing error: ", "parsererror")>>
                ELSE <<<<"Root element must be <Sections>">>>>,
                <<>>)

CallRejectStep(c, d, f) ==
    /\ call[c].pc = "idle"
    /\ started < MaxCalls
    /\ ~cacheHit(d, f)
    /\ ~Docs[d].wellFormed \/ Docs[d].root # "Sections"
    /\ started' = started + 1
    /\ Return(c, d, f, rejectResult(d))
    /\ UNCHANGED <<config, templateCache, cacheOrder>>

CallReject(c, d, f) ==
    /\ CallRejectStep(c, d, f)
    /\ UNCHANGED engineVars
    /\ UNCHANGED restVars

\* parseTemplate up to its first suspension: the cache is missed, the root
\* is accepted and parseSections runs until its first await (a section's
\* parseSection has run by then; what the resumption does with its outcome,
\* push or catch, touches only locals of this call and is done here).
CallStartStep(c, d, f) ==
    /\ call[c].pc = "idle"
    /\ started < MaxCalls
    /\ ~cacheHit(d, f)
    /\ Docs[d].wellFormed /\ Docs[d].root = "Sections"
    /\ started' = started + 1
    /\ call' = [call EXCEPT ![c] =
         IF Docs[d].sections = <<>>
         THEN [pc |-> "assemble", doc |-> d, formCode |-> f, next |-> 1,
               sections |-> <<>>, errors |-> <<>>]
         ELSE LET r == parseSectionsStep(Docs[d].sections[1], <<>>, <<>>)
              IN  [pc |-> "parseSections", doc |-> d, formCode |-> f, next |-> 2,
                   sections |-> r.sections, errors |-> r.errors]]
    /\ UNCHANGED <<config, templateCache, cacheOrder, returned>>

CallStart(c, d, f) ==
    /\ CallStartStep(c, d, f)
    /\ UNCHANGED engineVars
    /\ UNCHANGED restVars

\* parseSections resumed after an await: the next section, or the return.
ResumeSectionsStep(c) ==
    /\ call[c].pc = "parseSections"
    /\ LET elems == Docs[call[c].doc].sections
           n == call[c].next
       IN  call' = [call EXCEPT ![c] =
             IF n > Len(elems)
             THEN [call[c] EXCEPT !.pc = "assemble"]
             ELSE LET r == parseSectionsStep(elems[n], call[c].sections, call[c].errors)
                  IN  [call[c] EXCEPT !.next = n + 1, !.sections = r.sections,
                                      !.errors = r.errors]]
    /\ UNCHANGED <<config, templateCache, cacheOrder, started, returned>>

ResumeSections(c) ==
    /\ ResumeSectionsStep(c)
    /\ UNCHANGED engineVars
    /\ UNCHANGED restVars

\* The HTKKTemplate of lines 101-111 (metadata: titles looked up from
\* formCode and a timestamp, read by nothing).
makeTemplate(version, formCode, sections) ==
    [version |-> IF version = NoAttr THEN "unknown" ELSE version,
     formCode |-> formCode, sections |-> sections]

\* The errors of lines 113-120: with validateOnParse, the businessRuleErrors
\* of an invalid template are appended.  (The warnings line spreads
\* `fieldWarnings.flat ? ... : []`; fieldWarnings is a plain object, so
\* nothing is ever appended to warnings.)
errorsAfterValidation(validateOnParse, template, errors) ==
    IF validateOnParse /\ ~validateTemplate(template).isValid
    THEN errors \o validateTemplate(template).businessRuleErrors
    ELSE errors

\* Lines 122-125: the template is stored whatever the errors are.
cacheAfterParse(key, template, errors) ==
    IF config.cacheTemplates
    THEN [k \in DOMAIN templateCache \cup {key} |->
            IF k = key THEN template ELSE templateCache[k]]
    ELSE templateCache

\* Lines 127-133 with the template kept in a failure.
parseResultKeepingTemplate(template, errors) ==
    ParseResult(errors = <<>>, <<template>>, errors, <<>>)

\* Lines 127-133.
parseResult(template, errors) ==
    ParseResult(errors = <<>>, IF errors = <<>> THEN <<template>> ELSE <<>>,
                errors, <<>>)

\* Map.set appends a new key to the iteration order of the map and leaves
\* the place of a key it already holds.
orderAfterParse(key) ==
    IF config.cacheTemplates /\ key \notin DOMAIN templateCache
    THEN Append(cacheOrder, key) ELSE cacheOrder

\* The ParseResult the call of caller c returns from lines 127-133.
assembleResult(c) ==
    LET template == makeTemplate(Docs[call[c].doc].Version, call[c].formCode,
                                 call[c].sections)
    IN  parseResult(template,
                    errorsAfterValidation(config.validateOnParse, template,
                                          call[c].errors))

\* parseTemplate resumed after `await this.parseSections(...)`: lines 100-133.
AssembleStep(c) ==
    /\ call[c].pc = "assemble"
    /\ LET d == call[c].doc
           f == call[c].formCode
           template == makeTemplate(Docs[d].Version, f, call[c].sections)
           errors == errorsAfterValidation(config.validateOnParse, template, call[c].errors)
       IN  /\ templateCache' = cacheAfterParse(keyOf(d, f), template, errors)
           /\ cacheOrder' = orderAfterParse(keyOf(d, f))
           /\ Return(c, d, f, parseResult(template, errors))
    /\ UNCHANGED <<config, started>>

Assemble(c) ==
    /\ AssembleStep(c)
    /\ UNCHANGED engineVars
    /\ UNCHANGED restVars

\* The arguments of the calls of the model: every document under form code
\* 01/GTGT, and the first document under 03/TNDN as well.
Requests == (DocIds \X {"01/GTGT"}) \cup {<<1, "03/TNDN">>}

ParserNext ==
    \/ \E c \in Callers, q \in Requests : CallCacheHit(c, q[1], q[2])
    \/ \E c \in Callers, q \in Requests : CallReject(c, q[1], q[2])
    \/ \E c \in Callers, q \in Requests : CallStart(c, q[1], q[2])
    \/ \E c \in Callers : ResumeSections(c)
    \/ \E c \in Callers : Assemble(c)

\* The whole of parseSections on a document, as one fold of its loop.
RECURSIVE parseSectionsFrom(_, _, _)
parseSectionsFrom(sectionElements, sections, errors) ==
    IF sectionElements = <<>> THEN [sections |-> sections, errors |-> errors]
    ELSE LET r == parseSectionsStep(Head(sectionElements), sections, errors)
         IN  parseSectionsFrom(Tail(sectionElements), r.sections, r.errors)

\* ------------------------------------------------------------------------
\* HTKKFormEngine: rendering
\* ------------------------------------------------------------------------

\* field.path.includes('required') || field.cellId.startsWith('R_'), on the
\* identifiers of the model: no path of the model contains 'required'; the
\* ids that start with 'R_' are R_1 and R_7.
isFieldRequired(field) == field.cellId \in {"R_1", "R_7"}

getFieldValidation(field) ==
    [required |-> isFieldRequired(field),
     minLength |-> IF field.controlType = TAX_CODE THEN <<10>> ELSE <<>>,
     maxLength |-> field.maxLen,
     minValue |-> IF field.minValue.kind = "number" THEN <<field.minValue.num>> ELSE <<>>,
     maxValue |-> IF field.maxValue.kind = "number" THEN <<field.maxValue.num>> ELSE <<>>,
     customRules |-> <<>>]

\* renderField (label: fieldLabels is empty, so the label is the cellId;
\* pattern is never set, customRules is the empty list).
renderField(field) ==
    [id |-> field.cellId, cellId |-> field.cellId, path |-> field.path,
     label |-> field.cellId, type |-> field.controlType,
     required |-> isFieldRequired(field),
     parentCell |-> field.parentCell,
     value |-> field.value,
     aiMapping |-> <<>>,
     validation |-> getFieldValidation(field)]

getSectionValidation(section) ==
    [required |-> ~section.dynamic,
     maxRows |-> IF section.dynamic THEN <<section.maxRows>> ELSE <<>>]

renderSection(section) ==
    [dynamic |-> section.dynamic, maxRows |-> section.maxRows,
     fields |-> MapSeq(renderField, sectionFields(section)),
     validation |-> getSectionValidation(section)]

\* The FormStructure renderForm builds from a template.
renderForm(template) ==
    [template |-> template, sections |-> MapSeq(renderSection, template.sections)]

\* All rendered fields of a form structure, in order.
renderedFieldsOf(section) == section.fields

structureFields(formStructure) == FlatMap(renderedFieldsOf, formStructure.sections)

\* ------------------------------------------------------------------------
\* HTKKFormEngine: validation
\* ------------------------------------------------------------------------

\* Form values are JavaScript strings (sequences of characters); NoText is
\* the empty value: the engine treats undefined, null and '' alike.
IsEmptyValue(value) == value = NoText

AllDigits(s) == \A i \in DOMAIN s : IsDigit(s[i])

\* Number(value) for a non-empty string of digits, '-' and letters: the
\* whole string must be a number.
ToNumber(s) ==
    IF s # <<>> /\ AllDigits(s) THEN DigitRun(s, 0)
    ELSE IF Len(s) > 1 /\ Head(s) = "-" /\ AllDigits(Tail(s)) THEN 0 - DigitRun(Tail(s), 0)
    ELSE NaN

\* /^\d{10}(-\d{3})?$/.test(value)
matchesTaxCode(value) ==
    \/ Len(value) = 10 /\ AllDigits(value)
    \/ /\ Len(value) = 14
       /\ AllDigits(SubSeq(value, 1, 10))
       /\ value[11] = "-"
       /\ AllDigits(SubSeq(value, 12, 14))

\* validateField of the engine: the errors for one field and one value.
\* (No template of the model has a DATE field: Date parsing is left to the
\* host; pattern and customRules are never set by getFieldValidation.)
validateFieldErrors(field, value) ==
    (IF field.required /\ IsEmptyValue(value)
     THEN <<Msg(field.label, " is required")>> ELSE <<>>)
      \o (IF field.type = NUMBER /\ ~IsEmptyValue(value)
          THEN IF ToNumber(value) = NaN
               THEN <<Msg(field.label, " must be a valid number")>>
               ELSE (IF field.validation.minValue # <<>>
                        /\ ToNumber(value) < field.validation.minValue[1]
                     THEN <<Msg(field.label, " must be at least minValue")>> ELSE <<>>)
                 \o (IF field.validation.maxValue # <<>>
                        /\ ToNumber(value) > field.validation.maxValue[1]
                     THEN <<Msg(field.label, " must be at most maxValue")>> ELSE <<>>)
          ELSE <<>>)
      \o (IF field.type = TAX_CODE /\ ~IsEmptyValue(value) /\ ~matchesTaxCode(value)
          THEN <<Msg(field.label, " must be a valid tax code format")>> ELSE <<>>)
      \o (IF /\ ~IsEmptyValue(value)
             /\ field.validation.minLength # <<>>
             /\ field.validation.minLength[1] # 0
             /\ Len(value) < field.validation.minLength[1]
          THEN <<Msg(field.label, " must be at least minLength characters")>> ELSE <<>>)
      \o (IF /\ ~IsEmptyValue(value)
             /\ field.validation.maxLength # <<>>
             /\ field.validation.maxLength[1] # 0
             /\ Len(value) > field.validation.maxLength[1]
          THEN <<Msg(field.label, " must be at most maxLength characters")>> ELSE <<>>)

\* A ValidationRule.  Its validator is caller code (value, formData) ->
\* boolean; the validators of the model are "never" (returns false), "filled"
\* (returns whether the form data holds some value) and "throws".
Rule(id, type, validator) ==
    [id |-> id, type |-> type, message |-> <<"violated: ", id>>,
     validator |-> validator]

\* What a call of rule.validator on the form data does.
validatorOutcome(rule, data) ==
    CASE rule.validator = "never" -> "false"
      [] rule.validator = "filled" ->
            IF \E p \in DOMAIN data : ~IsEmptyValue(data[p]) THEN "true" ELSE "false"
      [] OTHER -> "throws"

\* The messages of the rules of a list that fail and whose type is (is not,
\* when `business` is FALSE) 'business'.
RECURSIVE failedRules(_, _, _)
failedRules(rules, data, business) ==
    IF rules = <<>> THEN <<>>
    ELSE (IF /\ validatorOutcome(Head(rules), data) = "false"
             /\ (Head(rules).type = "business") = business
          THEN <<Head(rules).message>> ELSE <<>>)
            \o failedRules(Tail(rules), data, business)

\* validateField, lines 586-595: the custom rules of the field.  The loop
\* has no try: a validator that throws makes validateField throw.
validateFieldThrows(field, data) ==
    \E i \in DOMAIN field.validation.customRules :
        validatorOutcome(field.validation.customRules[i], data) = "throws"

\* The errors and the warnings validateField returns for a field.
validateFieldAllErrors(field, data) ==
    validateFieldErrors(field, data[field.path])
        \o failedRules(field.validation.customRules, data, TRUE)

validateFieldWarnings(field, data) ==
    failedRules(field.validation.customRules, data, FALSE)

\* validateBusinessRules: only the rules of type 'business' are evaluated; a
\* validator that throws is caught and reported.
RECURSIVE businessRuleErrorsOf(_, _)
businessRuleErrorsOf(rules, data) ==
    IF rules = <<>> THEN <<>>
    ELSE (IF Head(rules).type # "business" THEN <<>>
          ELSE IF validatorOutcome(Head(rules), data) = "false"
               THEN <<Head(rules).message>>
          ELSE IF validatorOutcome(Head(rules), data) = "throws"
               THEN <<Msg("Business rule validation failed: ", Head(rules).id)>>
          ELSE <<>>)
            \o businessRuleErrorsOf(Tail(rules), data)

\* this.validationRules.get(formCode) || []
rulesFor(formCode) ==
    IF formCode \in DOMAIN validationRules THEN validationRules[formCode] ELSE <<>>

validateBusinessRules(formCode, data) ==
    businessRuleErrorsOf(rulesFor(formCode), data)

\* validateCrossFields returns its empty list.
validateCrossFields(formStructure, data) == <<>>

\* checkRequiredFields: the paths of the required fields without value.
RECURSIVE missingOf(_, _)
missingOf(fields, data) ==
    IF fields = <<>> THEN <<>>
    ELSE (IF Head(fields).required /\ IsEmptyValue(data[Head(fields).path])
          THEN <<Head(fields).path>> ELSE <<>>)
            \o missingOf(Tail(fields), data)

checkRequiredFields(formStructure, data) ==
    missingOf(structureFields(formStructure), data)

\* The sum of the lengths of the error lists of all fields (errorCount is
\* incremented per field, whatever the path).
RECURSIVE fieldErrorTotal(_, _)
fieldErrorTotal(fields, data) ==
    IF fields = <<>> THEN 0
    ELSE Len(validateFieldAllErrors(Head(fields), data))
           + fieldErrorTotal(Tail(fields), data)

RECURSIVE fieldWarningTotal(_, _)
fieldWarningTotal(fields, data) ==
    IF fields = <<>> THEN 0
    ELSE Len(validateFieldWarnings(Head(fields), data))
           + fieldWarningTotal(Tail(fields), data)

\* The fields the field loop of validateForm gets through: all of them, or
\* those before the first field whose validateField throws.
RECURSIVE fieldsBeforeThrow(_, _)
fieldsBeforeThrow(fields, data) ==
    IF fields = <<>> \/ validateFieldThrows(Head(fields), data) THEN <<>>
    ELSE <<Head(fields)>> \o fieldsBeforeThrow(Tail(fields), data)

visitedFields(formStructure, data) ==
    fieldsBeforeThrow(structureFields(formStructure), data)

fieldLoopThrows(formStructure, data) ==
    \E i \in DOMAIN structureFields(formStructure) :
        validateFieldThrows(structureFields(formStructure)[i], data)

\* result.fieldErrors after the field loop of validateForm on `data`.
errorsByPath(fields, data) ==
    LET hit == {i \in DOMAIN fields : validateFieldAllErrors(fields[i], data) # <<>>}
    IN  [p \in {fields[i].path : i \in hit} |->
            LET last == CHOOSE i \in hit :
                           /\ fields[i].path = p
                           /\ \A j \in hit : fields[j].path = p => j <= i
            IN  validateFieldAllErrors(fields[last], data)]

fieldErrorsRecord(formStructure, data) ==
    errorsByPath(visitedFields(formStructure, data), data)

\* ... and result.fieldWarnings.
warningsByPath(fields, data) ==
    LET hit == {i \in DOMAIN fields : validateFieldWarnings(fields[i], data) # <<>>}
    IN  [p \in {fields[i].path : i \in hit} |->
            LET last == CHOOSE i \in hit :
                           /\ fields[i].path = p
                           /\ \A j \in hit : fields[j].path = p => j <= i
            IN  validateFieldWarnings(fields[last], data)]

fieldWarningsRecord(formStructure, data) ==
    warningsByPath(visitedFields(formStructure, data), data)

\* The weights of an error and of a warning in the score of validateForm.
ErrorWeight == 5
WarningWeight == 2

\* Math.max(0, 100 - (result.errorCount * 5) - (result.warningCount * 2))
scoreOf(errorCount, warningCount) ==
    Max(0, 100 - errorCount * ErrorWeight - warningCount * WarningWeight)

\* A report that counts warnings as blocking.
isValidWithoutWarnings(errorCount, warningCount) == errorCount = 0 /\ warningCount = 0

\* result.isValid = result.errorCount === 0
isValidOf(errorCount, warningCount) == errorCount = 0

\* The report validateForm returns when the field loop and the business
\* rules saw `dataBefore` and the passes after the await saw `dataAfter`.
\* When validateField throws, the catch clause takes over: the counts of the
\* fields visited so far stay, one error is added, isValid is false and
\* validationScore keeps its initial 100.
validationReport(formStructure, dataBefore, dataAfter) ==
    LET visited == visitedFields(formStructure, dataBefore)
        countedFieldErrors == fieldErrorTotal(visited, dataBefore)
        warningCount == fieldWarningTotal(visited, dataBefore)
        businessRuleErrors ==
            validateBusinessRules(formStructure.template.formCode, dataBefore)
        crossFieldErrors == validateCrossFields(formStructure, dataAfter)
        missingRequired == checkRequiredFields(formStructure, dataAfter)
        errorCount ==
            countedFieldErrors
              + Len(businessRuleErrors) + Len(crossFieldErrors) + Len(missingRequired)
    IN  IF fieldLoopThrows(formStructure, dataBefore)
        THEN [isValid |-> FALSE,
              fieldErrors |-> fieldErrorsRecord(formStructure, dataBefore),
              fieldWarnings |-> fieldWarningsRecord(formStructure, dataBefore),
              businessRuleErrors |-> <<Msg("Validation failed: ", "validator threw")>>,
              crossFieldErrors |-> <<>>,
              complianceErrors |-> <<>>,
              missingRequiredFields |-> <<>>,
              calculationErrors |-> <<>>,
              errorCount |-> countedFieldErrors + 1,
              warningCount |-> warningCount,
              validationScore |-> 100]
        ELSE [isValid |-> isValidOf(errorCount, warningCount),
              fieldErrors |-> fieldErrorsRecord(formStructure, dataBefore),
              fieldWarnings |-> fieldWarningsRecord(formStructure, dataBefore),
              businessRuleErrors |-> businessRuleErrors,
              crossFieldErrors |-> crossFieldErrors,
              complianceErrors |-> <<>>,
              missingRequiredFields |-> missingRequired,
              calculationErrors |-> <<>>,
              errorCount |-> errorCount,
              warningCount |-> warningCount,
              validationScore |-> scoreOf(errorCount, warningCount)]

\* A validateForm whose catch clause throws again what it caught.
validateFormRethrows(formStructure, data) == fieldLoopThrows(formStructure, data)

\* Whether the promise of validateForm rejects: its try block holds every
\* statement after the initialisation of `result`, and its catch clause
\* only writes to `result`, so an exception of validateField ends there.
validateFormThrows(formStructure, data) == FALSE

\* ------------------------------------------------------------------------
\* HTKKFormEngine: export
\* ------------------------------------------------------------------------

\* The document generateHTKKXML returns: the fixed HSoThueDTu / HSoKhaiThue /
\* CTieuTKhaiChinh skeleton with a comment inside.  A document is kept as its
\* well-formedness, the element names it contains and the (path, value)
\* pairs it holds; the skeleton holds none, whatever the form data.
generateHTKKXML(template, data) ==
    [wellFormed |-> TRUE,
     elements |-> {"HSoThueDTu", "HSoKhaiThue", "CTieuTKhaiChinh"},
     values |-> {}]

\* validateXMLStructure: isValid from the parse, htkkCompliant from the
\* presence of 'HSoThueDTu' in the text.
validateXMLStructure(xmlContent) ==
    [isValid |-> xmlContent.wellFormed,
     htkkCompliant |-> "HSoThueDTu" \in xmlContent.elements,
     errors |-> IF xmlContent.wellFormed THEN <<>> ELSE <<<<"Invalid XML structure">>>>,
     warnings |-> IF "HSoThueDTu" \in xmlContent.elements THEN <<>>
                  ELSE <<<<"Missing HTKK root element">>>>]

\* The HTKKXMLExportResult of exportToXML, given the report of its
\* validateForm call and the data generateHTKKXML saw.
exportResult(formStructure, validation, data) ==
    LET xmlContent == generateHTKKXML(formStructure.template, data)
        xmlValidation == validateXMLStructure(xmlContent)
    IN  [success |-> xmlValidation.isValid /\ xmlValidation.htkkCompliant,
         xmlContent |-> xmlContent,
         isValidXML |-> xmlValidation.isValid,
         htkkCompliant |-> xmlValidation.htkkCompliant,
         formCode |-> formStructure.template.formCode,
         templateVersion |-> formStructure.template.version,
         errors |-> (IF validation.isValid THEN <<>> ELSE <<<<"Form validation failed">>>>)
                      \o xmlValidation.errors,
         warnings |-> (IF validation.isValid THEN <<>>
                       ELSE <<<<"validation errors found">>>>)
                        \o xmlValidation.warnings]

\* The result of exportToXML when its try block throws: `result` as
\* initialised, with the error its catch clause pushes.
exportFailed(formStructure) ==
    [success |-> FALSE,
     xmlContent |-> [wellFormed |-> FALSE, elements |-> {}, values |-> {}],
     isValidXML |-> FALSE,
     htkkCompliant |-> FALSE,
     formCode |-> formStructure.template.formCode,
     templateVersion |-> formStructure.template.version,
     errors |-> <<Msg("Export failed: ", "validator threw")>>,
     warnings |-> <<>>]

\* ------------------------------------------------------------------------
\* HTKKFormEngine as a state machine: one form being filled in, validated
\* and exported
\* ------------------------------------------------------------------------

\* Number of field edits the caller makes in one behaviour.
MaxEdits == 1

\* What a fresh parseTemplate(doc, formCode) of the exported parser instance
\* htkkParser (validateOnParse: true) returns for a document.
freshParse(d, f) ==
    IF ~Docs[d].wellFormed \/ Docs[d].root # "Sections"
    THEN ParseResult(FALSE, <<>>, <<<<"not parsed">>>>, <<>>)
    ELSE LET r == parseSectionsFrom(Docs[d].sections, <<>>, <<>>)
             template == makeTemplate(Docs[d].Version, f, r.sections)
         IN  parseResult(template, errorsAfterValidation(TRUE, template, r.errors))

\* The values a caller types into a field.
Values ==
    {<<"0", "1", "2", "3", "4", "5", "6", "7", "8", "9">>,
     <<"0", "1", "2", "3", "4", "5", "6", "7", "8", "9", "-", "0", "0", "1">>,
     <<"1", "2", "3">>,
     <<"H", "N">>}

PathsOf(fs) == {structureFields(fs)[i].path : i \in DOMAIN structureFields(fs)}

\* The table paths of the dynamic sections of a form: the keys of
\* HTKKFormData.dynamicData.
TablePathsOf(fs) ==
    {fs.template.sections[i].tablePath :
        i \in {j \in DOMAIN fs.template.sections : fs.template.sections[j].dynamic}}

\* A row of a dynamic section as the caller submits it: a value per path.
RowValues == {[tenLKet |-> <<"H", "N">>]}

NoOp == [kind |-> "none", pc |-> "idle", data |-> <<>>, dynamicData |-> <<>>,
         edited |-> FALSE, report |-> <<>>]

EngineIdle ==
    /\ structure = <<>>
    /\ formData = <<>>
    /\ dynamicData = <<>>
    /\ validationRules = <<>>
    /\ engineOp = NoOp
    /\ edits = 0
    /\ lastReport = <<>>
    /\ lastExport = <<>>

\* The documents whose forms are filled in: those the parser accepts,
\* except the catalogue document (a form is filled in field by field, and
\* none of its fields is validated in a way the other documents lack).
FormDocs == DocIds \ {16}

\* renderForm of a template the parser delivers; the form starts empty and
\* the rule registry is as the constructor leaves it (initializeValidationRules
\* registers nothing).
EngineInit ==
    /\ \E d \in FormDocs :
          /\ freshParse(d, "01/GTGT").success
          /\ structure = renderForm(freshParse(d, "01/GTGT").template[1])
    /\ formData = [p \in PathsOf(structure) |-> NoText]
    /\ dynamicData = [tp \in TablePathsOf(structure) |-> <<>>]
    /\ validationRules = <<>>
    /\ engineOp = NoOp
    /\ edits = 0
    /\ lastReport = <<>>
    /\ lastExport = <<>>

\* The caller sets one field of the form data (also while a call of the
\* engine is suspended at an await).
SetValue(p, v) ==
    /\ edits < MaxEdits
    /\ formData[p] # v
    /\ formData' = [formData EXCEPT ![p] = v]
    /\ edits' = edits + 1
    /\ engineOp' = IF engineOp.kind = "none" THEN engineOp
                   ELSE [engineOp EXCEPT !.edited = TRUE]
    /\ UNCHANGED <<structure, dynamicData, validationRules, lastReport, lastExport>>
    /\ UNCHANGED parserVars
    /\ UNCHANGED restVars

\* validateForm is called: the field loop and the business rules run on the
\* data of that moment, up to `await this.validateBusinessRules(...)`.
ValidateCall ==
    /\ engineOp.kind = "none"
    /\ engineOp' = [kind |-> "validate", pc |-> "validating", data |-> formData,
                    dynamicData |-> dynamicData, edited |-> FALSE, report |-> <<>>]
    /\ UNCHANGED <<structure, formData, dynamicData, validationRules, edits, lastReport,
                   lastExport>>
    /\ UNCHANGED parserVars
    /\ UNCHANGED restVars

\* exportToXML is called: it starts with the same validateForm.
ExportCall ==
    /\ engineOp.kind = "none"
    /\ engineOp' = [kind |-> "export", pc |-> "validating", data |-> formData,
                    dynamicData |-> dynamicData, edited |-> FALSE, report |-> <<>>]
    /\ UNCHANGED <<structure, formData, dynamicData, validationRules, edits, lastReport,
                   lastExport>>
    /\ UNCHANGED parserVars
    /\ UNCHANGED restVars

\* validateForm resumes: cross-field pass, required fields, score, return
\* (to the caller, or into the try block of exportToXML).
ValidateReturn ==
    /\ engineOp.pc = "validating"
    /\ LET report == validationReport(structure, engineOp.data, formData)
       IN  IF engineOp.kind = "validate"
           THEN /\ lastReport' = <<[data |-> engineOp.data,
                                    dynamicData |-> engineOp.dynamicData,
                                    edited |-> engineOp.edited,
                                    threw |-> validateFormThrows(structure, engineOp.data),
                                    report |-> report]>>
                /\ engineOp' = NoOp
           ELSE /\ engineOp' =
                     IF validateFormThrows(structure, engineOp.data)
                     THEN [engineOp EXCEPT !.pc = "caught"]
                     ELSE [engineOp EXCEPT !.pc = "validated", !.report = <<report>>]
                /\ UNCHANGED lastReport

\* A validateForm that blanks the values it found errors for.
ValidateFinishClearing ==
    /\ ValidateReturn
    /\ formData' = [p \in DOMAIN formData |->
                       IF p \in DOMAIN fieldErrorsRecord(structure, engineOp.data)
                       THEN NoText ELSE formData[p]]
    /\ UNCHANGED <<structure, dynamicData, validationRules, edits, lastExport>>
    /\ UNCHANGED parserVars
    /\ UNCHANGED restVars

\* validateForm writes to its own `result` only.
ValidateFinish ==
    /\ ValidateReturn
    /\ UNCHANGED <<structure, formData, dynamicData, validationRules, edits, lastExport>>
    /\ UNCHANGED parserVars
    /\ UNCHANGED restVars

\* exportToXML resumes after validateForm: generateHTKKXML is called and
\* awaited.
ExportGenerate ==
    /\ engineOp.pc = "validated"
    /\ engineOp' = [engineOp EXCEPT !.pc = "generating"]
    /\ UNCHANGED <<structure, formData, dynamicData, validationRules, edits, lastReport,
                   lastExport>>
    /\ UNCHANGED parserVars
    /\ UNCHANGED restVars

\* exportToXML resumes after generateHTKKXML, or in its catch clause, and
\* returns its result.
ExportFinish ==
    /\ engineOp.pc \in {"generating", "caught"}
    /\ lastExport' = <<[data |-> engineOp.data,
                        dynamicData |-> engineOp.dynamicData,
                        edited |-> engineOp.edited,
                        result |-> IF engineOp.pc = "caught"
                                   THEN exportFailed(structure)
                                   ELSE exportResult(structure, engineOp.report[1],
                                                     formData)]>>
    /\ engineOp' = NoOp
    /\ UNCHANGED <<structure, formData, dynamicData, validationRules, edits, lastReport>>
    /\ UNCHANGED parserVars
    /\ UNCHANGED restVars

\* Number of rows the caller submits for a dynamic section.
MaxRowCount == 3

\* The caller appends a row to the rows of a dynamic section (also while a
\* call of the engine is suspended at an await).
AddRow(tp, row) ==
    /\ Len(dynamicData[tp]) < MaxRowCount
    /\ dynamicData' = [dynamicData EXCEPT ![tp] = Append(@, row)]
    /\ engineOp' = IF engineOp.kind = "none" THEN engineOp
                   ELSE [engineOp EXCEPT !.edited = TRUE]
    /\ UNCHANGED <<structure, formData, validationRules, edits, lastReport, lastExport>>
    /\ UNCHANGED parserVars
    /\ UNCHANGED restVars

EngineNext ==
    \/ \E p \in DOMAIN formData, v \in Values \cup {NoText} : SetValue(p, v)
    \/ ValidateCall
    \/ ExportCall
    \/ ValidateFinish
    \/ ExportGenerate
    \/ ExportFinish

\* ------------------------------------------------------------------------
\* Template loading: HTKKXMLParser.loadTemplate and, over it,
\* HTKKFormEngine.loadTemplate
\* ------------------------------------------------------------------------

\* A loadTemplate call of a caller: where it is, its arguments (version is
\* the argument of the engine's loadTemplate, NoAttr when it is left out),
\* the document the fetch delivered, whether the call of the parser was
\* made by the engine, and the ParseResult the engine got back.
NotLoading == [pc |-> "idle", formCode |-> "", version |-> NoAttr, doc |-> 0,
               engine |-> FALSE, result |-> <<>>]

LoaderIdle ==
    /\ templates = <<>>
    /\ load = [c \in Callers |-> NotLoading]
    /\ loaded = {}
    /\ engineLoaded = {}

\* getCachedTemplate of the parser: the first template of the cache, in
\* iteration order, whose formCode is the one asked for; <<>> when none.
getCachedTemplate(formCode) ==
    LET hit == {i \in DOMAIN cacheOrder :
                   templateCache[cacheOrder[i]].formCode = formCode}
    IN  IF hit = {} THEN <<>>
        ELSE <<templateCache[cacheOrder[CHOOSE i \in hit : \A j \in hit : i <= j]]>>

\* The documents a fetch of a template URL delivers.
LoadDocs == {13, 4, 5}

\* The form codes whose template is loaded.
LoadFormCodes == {"01/GTGT"}

\* The loadTemplate calls that have still to call parseTemplate.
ParsesAhead == {c \in Callers : load[c].pc \in {"d1", "fetching", "fetched"}}

\* A call that will fetch and parse is started only while the parseTemplate
\* calls of the behaviour stay within MaxCalls.
CanStartLoad == started + Cardinality(ParsesAhead) < MaxCalls

\* loadTemplate of the parser returns `result` for the call l of caller c:
\* to the engine, which goes on with it, or to another caller.
LoadReturn(c, l, result) ==
    /\ loaded' = loaded \cup {[formCode |-> l.formCode, result |-> result]}
    /\ load' = [load EXCEPT ![c] =
                   IF l.engine THEN [l EXCEPT !.pc = "parsed", !.result = <<result>>]
                   ELSE NotLoading]

\* The ParseResult of lines 149-155.
loadedFromCache(formCode) ==
    ParseResult(TRUE, getCachedTemplate(formCode), <<>>,
                <<<<"Template loaded from cache">>>>)

\* The ParseResult of the catch clause of loadTemplate, lines 170-177.
loadFailed ==
    ParseResult(FALSE, <<>>,
                <<Msg("Failed to load template: ", "Failed to fetch template")>>, <<>>)

\* HTKKXMLParser.loadTemplate up to its return from the cache or to its
\* `await fetch(url)`, lines 145-162.
LoadBegin(c, l) ==
    IF getCachedTemplate(l.formCode) # <<>>
    THEN LoadReturn(c, l, loadedFromCache(l.formCode))
    ELSE /\ load' = [load EXCEPT ![c] = [l EXCEPT !.pc = "fetching"]]
         /\ UNCHANGED loaded

\* A caller calls loadTemplate of the parser.
ParserLoadCall(c, f) ==
    /\ load[c].pc = "idle"
    /\ call[c].pc = "idle"
    /\ getCachedTemplate(f) = <<>> => CanStartLoad
    /\ LoadBegin(c, [NotLoading EXCEPT !.formCode = f])
    /\ UNCHANGED <<templates, engineLoaded>>
    /\ UNCHANGED parserVars
    /\ UNCHANGED engineVars
    /\ UNCHANGED laterVars

\* The fetch rejects, or its response is not ok: line 164 throws and the
\* catch clause returns.
FetchFailed(c) ==
    /\ load[c].pc = "fetching"
    /\ LoadReturn(c, load[c], loadFailed)
    /\ UNCHANGED <<templates, engineLoaded>>
    /\ UNCHANGED parserVars
    /\ UNCHANGED engineVars
    /\ UNCHANGED laterVars

\* The fetch delivers a response that is ok: `await response.text()`.
FetchDone(c, d) ==
    /\ load[c].pc = "fetching"
    /\ load' = [load EXCEPT ![c].pc = "fetched", ![c].doc = d]
    /\ UNCHANGED <<templates, loaded, engineLoaded>>
    /\ UNCHANGED parserVars
    /\ UNCHANGED engineVars
    /\ UNCHANGED laterVars

\* Line 168, `return await this.parseTemplate(xmlContent, formCode)`: the
\* call of parseTemplate, whose result is the result of loadTemplate.
LoadParseHit(c) ==
    /\ load[c].pc = "fetched"
    /\ CallCacheHitStep(c, load[c].doc, load[c].formCode)
    /\ LoadReturn(c, load[c], cacheHitResult(load[c].doc, load[c].formCode))
    /\ UNCHANGED <<templates, engineLoaded>>
    /\ UNCHANGED engineVars
    /\ UNCHANGED laterVars

LoadParseReject(c) ==
    /\ load[c].pc = "fetched"
    /\ CallRejectStep(c, load[c].doc, load[c].formCode)
    /\ LoadReturn(c, load[c], rejectResult(load[c].doc))
    /\ UNCHANGED <<templates, engineLoaded>>
    /\ UNCHANGED engineVars
    /\ UNCHANGED laterVars

LoadParseStart(c) ==
    /\ load[c].pc = "fetched"
    /\ CallStartStep(c, load[c].doc, load[c].formCode)
    /\ load' = [load EXCEPT ![c].pc = "parsing"]
    /\ UNCHANGED <<templates, loaded, engineLoaded>>
    /\ UNCHANGED engineVars
    /\ UNCHANGED laterVars

LoadParseResume(c) ==
    /\ load[c].pc = "parsing"
    /\ ResumeSectionsStep(c)
    /\ UNCHANGED loaderVars
    /\ UNCHANGED engineVars
    /\ UNCHANGED laterVars

LoadParseAssemble(c) ==
    /\ load[c].pc = "parsing"
    /\ AssembleStep(c)
    /\ LoadReturn(c, load[c], assembleResult(c))
    /\ UNCHANGED <<templates, engineLoaded>>
    /\ UNCHANGED engineVars
    /\ UNCHANGED laterVars

\* `${formCode}_${version || 'latest'}`, kept as the pair of its parts.
templateKey(formCode, version) ==
    <<formCode, IF version = NoAttr THEN "latest" ELSE version>>

\* An outcome of loadTemplate of the engine: the template it returned, or
\* the fact that it threw.
EngineLoadOutcome(formCode, version, template, threw) ==
    [formCode |-> formCode, version |-> version, template |-> template,
     threw |-> threw]

\* loadTemplate of the engine, lines 426-431: the key is in the memory map.
EngineLoadHit(c, f, v) ==
    /\ load[c].pc = "idle"
    /\ call[c].pc = "idle"
    /\ templateKey(f, v) \in DOMAIN templates
    /\ engineLoaded' = engineLoaded
            \cup {EngineLoadOutcome(f, v, <<templates[templateKey(f, v)]>>, FALSE)}
    /\ UNCHANGED <<templates, load, loaded>>
    /\ UNCHANGED parserVars
    /\ UNCHANGED engineVars
    /\ UNCHANGED laterVars

\* ... the key is not in the map: `await cloudflareD1Service.getCachedTemplate`.
EngineLoadMiss(c, f, v) ==
    /\ load[c].pc = "idle"
    /\ call[c].pc = "idle"
    /\ templateKey(f, v) \notin DOMAIN templates
    /\ CanStartLoad
    /\ load' = [load EXCEPT ![c] =
                   [NotLoading EXCEPT !.pc = "d1", !.formCode = f, !.version = v,
                                      !.engine = TRUE]]
    /\ UNCHANGED <<templates, loaded, engineLoaded>>
    /\ UNCHANGED parserVars
    /\ UNCHANGED engineVars
    /\ UNCHANGED laterVars

\* getCachedTemplate of the D1 service resolves to null (executeQuery
\* delivers no row), and line 441 calls loadTemplate of the parser.
EngineLoadFromParser(c) ==
    /\ load[c].pc = "d1"
    /\ LoadBegin(c, load[c])
    /\ UNCHANGED <<templates, engineLoaded>>
    /\ UNCHANGED parserVars
    /\ UNCHANGED engineVars
    /\ UNCHANGED laterVars

\* Lines 442-444: the ParseResult is a failure, loadTemplate throws.
EngineLoadThrow(c) ==
    /\ load[c].pc = "parsed"
    /\ ~load[c].result[1].success \/ load[c].result[1].template = <<>>
    /\ engineLoaded' = engineLoaded
            \cup {EngineLoadOutcome(load[c].formCode, load[c].version, <<>>, TRUE)}
    /\ load' = [load EXCEPT ![c] = NotLoading]
    /\ UNCHANGED <<templates, loaded>>
    /\ UNCHANGED parserVars
    /\ UNCHANGED engineVars
    /\ UNCHANGED laterVars

\* The memory map after this.templates.set(cacheKey, template).
templatesAfterSet(key, template) ==
    [k \in DOMAIN templates \cup {key} |->
        IF k = key THEN template ELSE templates[k]]

\* Lines 446-448: the template is stored under the key of the request, then
\* `await cloudflareD1Service.cacheTemplate(...)`.
EngineLoadStore(c) ==
    /\ load[c].pc = "parsed"
    /\ load[c].result[1].success /\ load[c].result[1].template # <<>>
    /\ templates' = templatesAfterSet(templateKey(load[c].formCode, load[c].version),
                                      load[c].result[1].template[1])
    /\ load' = [load EXCEPT ![c].pc = "stored"]
    /\ UNCHANGED <<loaded, engineLoaded>>
    /\ UNCHANGED parserVars
    /\ UNCHANGED engineVars
    /\ UNCHANGED laterVars

\* Line 450: the template of the ParseResult is returned.
EngineLoadReturn(c) ==
    /\ load[c].pc = "stored"
    /\ engineLoaded' = engineLoaded
            \cup {EngineLoadOutcome(load[c].formCode, load[c].version,
                                    load[c].result[1].template, FALSE)}
    /\ load' = [load EXCEPT ![c] = NotLoading]
    /\ UNCHANGED <<templates, loaded>>
    /\ UNCHANGED parserVars
    /\ UNCHANGED engineVars
    /\ UNCHANGED laterVars

\* The steps of a loadTemplate call of the parser after its start.
ParserLoadSteps ==
    \/ \E c \in Callers : FetchFailed(c)
    \/ \E c \in Callers, d \in LoadDocs : FetchDone(c, d)
    \/ \E c \in Callers : LoadParseHit(c)
    \/ \E c \in Callers : LoadParseReject(c)
    \/ \E c \in Callers : LoadParseStart(c)
    \/ \E c \in Callers : LoadParseResume(c)
    \/ \E c \in Callers : LoadParseAssemble(c)

\* The versions a caller of the engine asks for (NoAttr: none).
Versions == {"480", "470", NoAttr}

\* ------------------------------------------------------------------------
\* Auto-fill: HTKKFormEngine.applyFieldMapping
\* ------------------------------------------------------------------------

\* An HTKKFieldMapping, with the parts applyFieldMapping reads.
FieldMapping(targetPath, value, isValid) ==
    [targetPath |-> targetPath, value |-> value, isValid |-> isValid,
     validationErrors |-> IF isValid THEN <<>> ELSE <<"unreadable">>,
     sourcePath |-> "invoice"]

\* An HTKKMappingResult, with the parts applyFieldMapping reads.
MappingResult(fieldMappings, dynamicMappings) ==
    [fieldMappings |-> fieldMappings, dynamicMappings |-> dynamicMappings]

\* The places <<section, field>> of the fields of a form with a path.
placesOf(formStructure, path) ==
    UNION {{<<si, fi>> : fi \in {k \in DOMAIN formStructure.sections[si].fields :
                                    formStructure.sections[si].fields[k].path = path}} :
           si \in DOMAIN formStructure.sections}

\* findFieldByPath: the place of the first field with the path, in the
\* order of the sections and of their fields; <<>> (null) when none.
findFieldByPath(formStructure, path) ==
    LET places == placesOf(formStructure, path)
    IN  IF places = {} THEN <<>>
        ELSE <<CHOOSE p \in places :
                   \A q \in places : p[1] < q[1] \/ (p[1] = q[1] /\ p[2] <= q[2])>>

\* Lines 256-262: the assignments to the field found.
writeField(formStructure, place, mapping) ==
    [formStructure EXCEPT
        !.sections[place[1]].fields[place[2]].value = mapping.value,
        !.sections[place[1]].fields[place[2]].aiMapping =
            <<[source |-> mapping.sourcePath]>>]

\* The body of the loop over fieldMappings for one mapping; acc holds the
\* form and the AutoFillResult so far.
applyMapping(acc, mapping) ==
    LET field == findFieldByPath(acc.structure, mapping.targetPath)
    IN  IF field = <<>>
        THEN [acc EXCEPT !.warnings = Append(@, Msg("Field not found: ", mapping.targetPath))]
        ELSE IF ~mapping.isValid
        THEN [acc EXCEPT !.errors = Append(@, Msg("Invalid mapping for ", mapping.targetPath))]
        ELSE [acc EXCEPT !.structure = writeField(@, field[1], mapping),
                         !.fieldsUpdated = @ + 1]

RECURSIVE applyMappingsFrom(_, _, _)
applyMappingsFrom(acc, fieldMappings, i) ==
    IF i > Len(fieldMappings) THEN acc
    ELSE applyMappingsFrom(applyMapping(acc, fieldMappings[i]), fieldMappings, i + 1)

\* The sum of the lengths of the lists of a Record<path, string[]>.
RECURSIVE SumOfLengths(_, _)
SumOfLengths(rec, paths) ==
    IF paths = {} THEN 0
    ELSE LET p == CHOOSE q \in paths : TRUE
         IN  Len(rec[p]) + SumOfLengths(rec, paths \ {p})

\* The loop over Object.entries(mappingResult.dynamicMappings), lines
\* 268-272: what it adds to fieldsUpdated.
dynamicMappingsCounted(dynamicMappings) ==
    SumOfLengths(dynamicMappings, DOMAIN dynamicMappings)

\* applyFieldMapping: the form after the call and the AutoFillResult.
applyFieldMapping(formStructure, mappingResult) ==
    LET acc == applyMappingsFrom([structure |-> formStructure, fieldsUpdated |-> 0,
                                  errors |-> <<>>, warnings |-> <<>>],
                                 mappingResult.fieldMappings, 1)
    IN  [structure |-> acc.structure,
         result |-> [success |-> acc.errors = <<>>,
                     fieldsUpdated |-> acc.fieldsUpdated
                         + dynamicMappingsCounted(mappingResult.dynamicMappings),
                     errors |-> acc.errors,
                     warnings |-> acc.warnings,
                     mappingDetails |-> mappingResult.fieldMappings]]

\* A caller applies a mapping result to the form. The function has no
\* await: the call runs from its start to its return in one step.
ApplyFieldMapping(mappingResult) ==
    /\ engineOp = NoOp
    /\ edits < MaxEdits
    /\ edits' = edits + 1
    /\ structure' = applyFieldMapping(structure, mappingResult).structure
    /\ lastAutoFill' = <<[before |-> structure, mapping |-> mappingResult,
                          result |-> applyFieldMapping(structure, mappingResult).result]>>
    /\ UNCHANGED <<formData, dynamicData, validationRules, engineOp, lastReport,
                   lastExport>>
    /\ UNCHANGED parserVars
    /\ UNCHANGED loaderVars
    /\ UNCHANGED storageVars

\* A path no form has a field for.
NoSuchPath == "khong/co"

\* The values the mappings carry.
MappedValues == {<<"H", "N">>, <<"1", "2", "3">>}

\* The mappings of single fields a mapping result holds for a form.
FieldMappingsFor(formStructure) ==
    {FieldMapping(path, value, isValid) :
        path \in PathsOf(formStructure) \cup {NoSuchPath},
        value \in MappedValues, isValid \in BOOLEAN}

\* The longest list of field mappings of a mapping result.
MaxMappings == 2

\* A mapping of a cell of a table row.
RowMapping == FieldMapping("bang/cot", <<"H", "N">>, TRUE)

\* The dynamicMappings of a mapping result: none, or the rows mapped for
\* one table.
DynamicMappingsFor(formStructure) ==
    {<<>>} \cup
    {[tp \in {tablePath} |-> rows] :
        tablePath \in TablePathsOf(formStructure) \cup {"bang"},
        rows \in {<<RowMapping>>, <<RowMapping, RowMapping>>}}

MappingResultsFor(formStructure) ==
    {MappingResult(fieldMappings, dynamicMappings) :
        fieldMappings \in UNION {[1..n -> FieldMappingsFor(formStructure)] : n \in 0..MaxMappings},
        dynamicMappings \in DynamicMappingsFor(formStructure)}

MappingIdle == lastAutoFill = <<>>

\* ------------------------------------------------------------------------
\* Document storage: CloudflareR2Service.uploadDocument and the cleanup of
\* uploaded documents
\* ------------------------------------------------------------------------

\* PrivacyTier.
PrivacyTiers == {"basic", "premium", "enterprise"}

\* PRIVACY_TIER_CONFIGS, with the parts the storage service reads.
PRIVACY_TIER_CONFIGS ==
    [tier \in PrivacyTiers |->
        [autoDelete |-> TRUE,
         deleteAfterSeconds |-> CASE tier = "basic" -> 24 * 60 * 60
                                  [] tier = "premium" -> 60 * 60
                                  [] tier = "enterprise" -> 0]]

getPrivacyConfig(tier) == PRIVACY_TIER_CONFIGS[tier]

\* bucketConfigs[tier].bucketName, without environment overrides.
bucketName(tier) ==
    CASE tier = "basic" -> "htkk-basic"
      [] tier = "premium" -> "htkk-premium"
      [] tier = "enterprise" -> "htkk-enterprise"

\* The period of the setInterval of startCleanupScheduler, in milliseconds.
CleanupInterval == 60 * 60 * 1000

\* The number of uploadDocument calls of a behaviour.
MaxUploads == 2

\* The hours a behaviour lasts.
MaxHours == 25

\* The service as its constructor leaves it: no job, the scheduler started.
StorageIdle ==
    /\ now = 0
    /\ uploads = <<>>
    /\ cleanupJobs = <<>>
    /\ timers = {}
    /\ nextCleanup = CleanupInterval
    /\ jobsToRun = <<>>
    /\ deleting = {}
    /\ r2Uploaded = {}
    /\ r2Deleted = {}

\* Every action of the storage leaves the parser, the form, the template
\* loading and the auto-fill alone.
StorageFrame ==
    /\ UNCHANGED parserVars
    /\ UNCHANGED engineVars
    /\ UNCHANGED loaderVars
    /\ UNCHANGED mappingVars

\* uploadDocument up to the end of validateFile: a file the upload
\* configuration does not allow makes validateFile throw, and the catch
\* clause returns a failure; otherwise the call awaits file.arrayBuffer().
\* generateFileId delivers an id no other call has.
UploadCall(privacyTier, fileAllowed) ==
    /\ Len(uploads) < MaxUploads
    /\ uploads' = Append(uploads,
                         [pc |-> IF fileAllowed THEN "preparing" ELSE "failed",
                          privacyTier |-> privacyTier, autoDeleteAt |-> <<>>])
    /\ UNCHANGED <<now, cleanupJobs, timers, nextCleanup, jobsToRun, deleting,
                   r2Uploaded, r2Deleted>>
    /\ StorageFrame

\* Lines 148-152: metadata.autoDeleteAt, <<>> when it is not set.
\* toISOString writes the time with its milliseconds and the new Date(...)
\* of line 167 reads the same time back.
autoDeleteAtOf(privacyConfig) ==
    IF privacyConfig.autoDelete /\ privacyConfig.deleteAfterSeconds > 0
    THEN <<now + privacyConfig.deleteAfterSeconds * 1000>>
    ELSE <<>>

\* The metadata is prepared and performR2Upload is called and awaited.
UploadSend(fileId) ==
    /\ fileId \in DOMAIN uploads
    /\ uploads[fileId].pc = "preparing"
    /\ uploads' = [uploads EXCEPT
                      ![fileId].pc = "uploading",
                      ![fileId].autoDeleteAt =
                          autoDeleteAtOf(getPrivacyConfig(uploads[fileId].privacyTier))]
    /\ r2Uploaded' = r2Uploaded \cup {<<fileId, bucketName(uploads[fileId].privacyTier)>>}
    /\ UNCHANGED <<now, cleanupJobs, timers, nextCleanup, jobsToRun, deleting,
                   r2Deleted>>
    /\ StorageFrame

\* scheduleCleanup: the job is put into cleanupJobs (file ids are unique: a
\* new key) and, when the time is still ahead, a timer is set.
jobsAfterSchedule(fileId, deleteAt, privacyTier) ==
    Append(cleanupJobs, [fileId |-> fileId, deleteAt |-> deleteAt,
                         privacyTier |-> privacyTier, reason |-> "auto_cleanup"])

timersAfterSchedule(fileId, deleteAt) ==
    IF deleteAt - now > 0
    THEN timers \cup {[fileId |-> fileId, at |-> deleteAt]}
    ELSE timers

\* performR2Upload has resolved; lines 166-168 call scheduleCleanup when
\* metadata.autoDeleteAt is set, and the call goes on to its audit log.
UploadStored(fileId) ==
    /\ fileId \in DOMAIN uploads
    /\ uploads[fileId].pc = "uploading"
    /\ uploads' = [uploads EXCEPT ![fileId].pc = "logging"]
    /\ IF uploads[fileId].autoDeleteAt # <<>>
       THEN /\ cleanupJobs' = jobsAfterSchedule(fileId, uploads[fileId].autoDeleteAt[1],
                                                uploads[fileId].privacyTier)
            /\ timers' = timersAfterSchedule(fileId, uploads[fileId].autoDeleteAt[1])
       ELSE UNCHANGED <<cleanupJobs, timers>>
    /\ UNCHANGED <<now, nextCleanup, jobsToRun, deleting, r2Uploaded, r2Deleted>>
    /\ StorageFrame

\* uploadDocument returns its result with success true.
UploadReturn(fileId) ==
    /\ fileId \in DOMAIN uploads
    /\ uploads[fileId].pc = "logging"
    /\ uploads' = [uploads EXCEPT ![fileId].pc = "done"]
    /\ UNCHANGED <<now, cleanupJobs, timers, nextCleanup, jobsToRun, deleting,
                   r2Uploaded, r2Deleted>>
    /\ StorageFrame

\* The callback of a timer of scheduleCleanup runs at its time and calls
\* deleteDocument, which awaits getFileMetadata.
TimerFire(timer) ==
    /\ timer \in timers
    /\ timer.at <= now
    /\ timers' = timers \ {timer}
    /\ deleting' = deleting \cup {[fileId |-> timer.fileId, by |-> "timer"]}
    /\ UNCHANGED <<now, uploads, cleanupJobs, nextCleanup, jobsToRun, r2Uploaded,
                   r2Deleted>>
    /\ StorageFrame

\* The jobs of cleanupJobs that are due, in the iteration order of the map.
dueJobs == SelectSeq(cleanupJobs, LAMBDA job : job.deleteAt <= now)

\* The setInterval callback: runCleanupJobs collects the jobs that are due.
RunCleanupJobs ==
    /\ nextCleanup <= now
    /\ nextCleanup' = nextCleanup + CleanupInterval
    /\ jobsToRun' = jobsToRun \o dueJobs
    /\ UNCHANGED <<now, uploads, cleanupJobs, timers, deleting, r2Uploaded, r2Deleted>>
    /\ StorageFrame

\* The second loop of runCleanupJobs: deleteDocument is called for the next
\* job once the call for the one before has returned.
CleanupDelete ==
    /\ jobsToRun # <<>>
    /\ \A d \in deleting : d.by # "cleanup"
    /\ deleting' = deleting \cup {[fileId |-> Head(jobsToRun).fileId, by |-> "cleanup"]}
    /\ jobsToRun' = Tail(jobsToRun)
    /\ UNCHANGED <<now, uploads, cleanupJobs, timers, nextCleanup, r2Uploaded, r2Deleted>>
    /\ StorageFrame

\* getFileMetadata: the privacy tier of the metadata it returns for any file.
metadataTier == "premium"

\* deleteDocument after getFileMetadata: performR2Delete is called with the
\* bucket of the tier of the metadata, the job is taken from cleanupJobs
\* and the call returns true.
DeleteDocument(d) ==
    /\ d \in deleting
    /\ deleting' = deleting \ {d}
    /\ r2Deleted' = r2Deleted \cup {<<d.fileId, bucketName(metadataTier)>>}
    /\ cleanupJobs' = SelectSeq(cleanupJobs, LAMBDA job : job.fileId # d.fileId)
    /\ UNCHANGED <<now, uploads, timers, nextCleanup, jobsToRun, r2Uploaded>>
    /\ StorageFrame

\* The calls in progress and the callbacks that are due all take far less
\* than an hour (the awaits of the service last 100 ms at most).
StorageQuiet ==
    /\ \A fileId \in DOMAIN uploads : uploads[fileId].pc \in {"done", "failed"}
    /\ \A timer \in timers : timer.at > now
    /\ nextCleanup > now
    /\ jobsToRun = <<>>
    /\ deleting = {}

\* An hour passes.
Tick ==
    /\ StorageQuiet
    /\ now < MaxHours * CleanupInterval
    /\ now' = now + CleanupInterval
    /\ UNCHANGED <<uploads, cleanupJobs, timers, nextCleanup, jobsToRun, deleting,
                   r2Uploaded, r2Deleted>>
    /\ StorageFrame

StorageNext ==
    \/ \E privacyTier \in PrivacyTiers, fileAllowed \in BOOLEAN :
          UploadCall(privacyTier, fileAllowed)
    \/ \E fileId \in DOMAIN uploads : UploadSend(fileId)
    \/ \E fileId \in DOMAIN uploads : UploadStored(fileId)
    \/ \E fileId \in DOMAIN uploads : UploadReturn(fileId)
    \/ \E timer \in timers : TimerFire(timer)
    \/ RunCleanupJobs
    \/ CleanupDelete
    \/ \E d \in deleting : DeleteDocument(d)
    \/ Tick

\* ------------------------------------------------------------------------
\* Specifications
\* ------------------------------------------------------------------------

\* No template has been loaded, no mapping applied, no document uploaded.
RestIdle == LoaderIdle /\ MappingIdle /\ StorageIdle

\* The module-level parser instance of the engine, as constructed.
ParserIdle ==
    /\ config = [validateOnParse |-> TRUE, cacheTemplates |-> TRUE]
    /\ templateCache = <<>>
    /\ cacheOrder = <<>>
    /\ call = [c \in Callers |-> Idle]
    /\ started = 0
    /\ returned = {}

\* Callers of one parser instance.
Init == ParserInit /\ EngineIdle /\ RestIdle

Next == ParserNext

Spec == Init /\ [][Next]_vars

\* One form of the form engine.
EngineSpecInit == ParserIdle /\ EngineInit /\ RestIdle

SpecEngine == EngineSpecInit /\ [][EngineNext]_vars

\* One form with a dynamic section whose rows the caller submits.
RowsInit ==
    /\ ParserIdle
    /\ EngineInit
    /\ RestIdle
    /\ TablePathsOf(structure) # {}

RowsNext ==
    \/ \E tp \in DOMAIN dynamicData, row \in RowValues : AddRow(tp, row)
    \/ ValidateCall
    \/ ExportCall
    \/ ValidateFinish
    \/ ExportGenerate
    \/ ExportFinish

SpecRows == RowsInit /\ [][RowsNext]_vars

\* An engine whose rule registry has been loaded and whose caller has put
\* custom rules on the first field of the form.
BusinessNever == Rule("B1", "business", "never")
BusinessFilled == Rule("B2", "business", "filled")
BusinessThrows == Rule("B3", "business", "throws")
FormatNever == Rule("F1", "format", "never")
FormatThrows == Rule("F2", "format", "throws")
CalculationNever == Rule("K1", "calculation", "never")

\* Number of rules of the longest registry of the model.
ManyRules == 21

Registry(formCode, rules) == [f \in {formCode} |-> rules]

\* The configurations: a registry and the custom rules of the first field.
RuleConfigs ==
    {[registry |-> <<>>, custom |-> <<>>],
     [registry |-> Registry("01/GTGT", <<BusinessNever>>), custom |-> <<>>],
     [registry |-> Registry("01/GTGT", <<FormatNever>>), custom |-> <<>>],
     [registry |-> Registry("01/GTGT", <<BusinessThrows, CalculationNever>>),
      custom |-> <<>>],
     [registry |-> Registry("01/GTGT", <<BusinessFilled, FormatNever>>),
      custom |-> <<FormatNever>>],
     [registry |-> Registry("03/TNDN", <<BusinessNever>>), custom |-> <<>>],
     [registry |-> <<>>, custom |-> <<FormatNever>>],
     [registry |-> <<>>, custom |-> <<BusinessFilled, CalculationNever>>],
     [registry |-> <<>>, custom |-> <<FormatThrows>>],
     [registry |-> Registry("01/GTGT", [i \in 1..ManyRules |-> BusinessNever]),
      custom |-> <<>>]}

\* The caller appends rules to validation.customRules of the first field of
\* the first section of a rendered form.
attachCustomRules(fs, rules) ==
    [fs EXCEPT !.sections[1].fields[1].validation.customRules = @ \o rules]

\* The documents of the forms of this specification.
RuleDocs == {13}

RulesInit ==
    /\ ParserIdle
    /\ RestIdle
    /\ \E d \in RuleDocs, cfg \in RuleConfigs :
          /\ structure = attachCustomRules(
                             renderForm(freshParse(d, "01/GTGT").template[1]), cfg.custom)
          /\ validationRules = cfg.registry
    /\ formData = [p \in PathsOf(structure) |-> NoText]
    /\ dynamicData = [tp \in TablePathsOf(structure) |-> <<>>]
    /\ engineOp = NoOp
    /\ edits = 0
    /\ lastReport = <<>>
    /\ lastExport = <<>>

SpecRules == RulesInit /\ [][EngineNext]_vars

\* A form rendered by the engine, to which mapping results are applied.
MappingNext ==
    \E mappingResult \in MappingResultsFor(structure) : ApplyFieldMapping(mappingResult)

SpecMapping == EngineSpecInit /\ [][MappingNext]_vars

\* The storage service from its construction on.
StorageInit == ParserIdle /\ EngineIdle /\ RestIdle

SpecStorage == StorageInit /\ [][StorageNext]_vars

\* Callers of one parser instance, of any configuration, that call
\* parseTemplate with a text at hand or loadTemplate with a form code.
ParserLoadInit == ParserInit /\ EngineIdle /\ RestIdle

LoadRequests == LoadDocs \X LoadFormCodes

ParserLoadNext ==
    \/ \E c \in Callers, q \in LoadRequests :
          load[c].pc = "idle" /\ CallCacheHit(c, q[1], q[2])
    \/ \E c \in Callers, q \in LoadRequests :
          load[c].pc = "idle" /\ CallReject(c, q[1], q[2])
    \/ \E c \in Callers, q \in LoadRequests :
          load[c].pc = "idle" /\ CallStart(c, q[1], q[2])
    \/ \E c \in Callers : load[c].pc = "idle" /\ ResumeSections(c)
    \/ \E c \in Callers : load[c].pc = "idle" /\ Assemble(c)
    \/ \E c \in Callers, f \in LoadFormCodes : ParserLoadCall(c, f)
    \/ ParserLoadSteps

SpecParserLoad == ParserLoadInit /\ [][ParserLoadNext]_vars

\* Callers of loadTemplate of the engine, which loads through the parser
\* instance htkkParser.
EngineLoadInit == ParserIdle /\ EngineIdle /\ RestIdle

EngineLoadNext ==
    \/ \E c \in Callers, f \in LoadFormCodes, v \in Versions : EngineLoadHit(c, f, v)
    \/ \E c \in Callers, f \in LoadFormCodes, v \in Versions : EngineLoadMiss(c, f, v)
    \/ \E c \in Callers : EngineLoadFromParser(c)
    \/ \E c \in Callers : EngineLoadThrow(c)
    \/ \E c \in Callers : EngineLoadStore(c)
    \/ \E c \in Callers : EngineLoadReturn(c)
    \/ ParserLoadSteps

SpecLoad == EngineLoadInit /\ [][EngineLoadNext]_vars

\* ------------------------------------------------------------------------
\* Claims about parseTemplate (checked under Spec)
\* ------------------------------------------------------------------------

\* The calls that are between the start of their parse and their return.
InFlight == {c \in Callers : call[c].pc \in {"parseSections", "assemble"}}

FromCache(result) == result.warnings = <<<<"Template loaded from cache">>>>

\* The <Cell> elements of a section element in document order.
sectionCellElems(sectionElement) ==
    LET row == IF sectionElement.RowInfo = <<>> THEN <<>> ELSE sectionElement.RowInfo[1]
    IN  IF sectionElement.rowInfoFirst THEN row \o sectionElement.Cells
        ELSE sectionElement.Cells \o row

docCellElems(doc) == FlatMap(sectionCellElems, doc.sections)

IsDefective(cellElement) ==
    cellElement.CellID = NoAttr \/ cellElement.Path = NoAttr
        \/ cellElement.Controltype = NoText

HasFatalDefect(doc) ==
    \E i \in DOMAIN docCellElems(doc) : IsDefective(docCellElems(doc)[i])

\* The field ids and control types of a template, section by section.
fieldShape(field) == <<field.cellId, field.controlType>>

sectionShape(section) ==
    <<MapSeq(fieldShape, section.cells),
      IF section.rowInfo = <<>> THEN <<>> ELSE MapSeq(fieldShape, section.rowInfo[1])>>

templateShape(template) ==
    IF template = <<>> THEN <<>> ELSE <<MapSeq(sectionShape, template[1].sections)>>

\* C1 (cache coalescing): with the cache enabled, at most one parse per
\* cache key is in flight at any time; a second caller of the same
\* (xmlContent, formCode) waits for the first caller's parse instead of
\* parsing again.
C1_SingleFlight ==
    config.cacheTemplates =>
        \A c1, c2 \in InFlight :
            keyOf(call[c1].doc, call[c1].formCode) = keyOf(call[c2].doc, call[c2].formCode)
                => c1 = c2

\* C2 (idempotent parse): two parseTemplate calls on the same parser with the
\* same xmlContent and formCode return the same success flag and
\* structurally equal templates (same field ids, control types, ordering).
C2_IdempotentParse ==
    \A r1, r2 \in returned :
        (r1.doc = r2.doc /\ r1.formCode = r2.formCode) =>
            /\ r1.result.success = r2.result.success
            /\ templateShape(r1.result.template) = templateShape(r2.result.template)

\* C3: a call whose source has a field missing CellID, Path or Controltype
\* returns success = false and no template, also when it is served from
\* the cache.
C3_NoTemplateOnFatalDefect ==
    \A r \in returned :
        HasFatalDefect(Docs[r.doc]) =>
            ~r.result.success /\ r.result.template = <<>>

Catalogue == {0, 2, 6, 14, 16, 26, 56, 100, 101}

HasUnknownCode(cellElement) ==
    ~IsDefective(cellElement) /\ ParseInt(cellElement.Controltype) \notin Catalogue

\* The documents C6 is about: no defective field, no section that fails, and
\* exactly one field with an unrecognized control-type code.
OneUnknownCode(doc) ==
    /\ doc.wellFormed /\ doc.root = "Sections"
    /\ ~HasFatalDefect(doc)
    /\ \A i \in DOMAIN doc.sections : ~parseSectionThrows(doc.sections[i])
    /\ Cardinality({i \in DOMAIN docCellElems(doc) :
                       HasUnknownCode(docCellElems(doc)[i])}) = 1

IsUnknownTypeWarning(w) == w[1] = "Unknown control type: "

\* C6 (unknown code tolerance): parsing a template with one field of an
\* unrecognized control-type code succeeds, the field is TEXT, and the
\* result carries exactly one warning for it and no error.
C6_UnknownCodeWarning ==
    \A r \in returned :
        (OneUnknownCode(Docs[r.doc]) /\ ~FromCache(r.result)) =>
            /\ r.result.success
            /\ r.result.errors = <<>>
            /\ \A i \in DOMAIN docCellElems(Docs[r.doc]) :
                  HasUnknownCode(docCellElems(Docs[r.doc])[i]) =>
                     \E s \in DOMAIN r.result.template[1].sections :
                        \E k \in DOMAIN sectionFields(r.result.template[1].sections[s]) :
                           LET fld == sectionFields(r.result.template[1].sections[s])[k]
                           IN  /\ fld.cellId = docCellElems(Docs[r.doc])[i].CellID
                               /\ fld.controlType = TEXT
            /\ Cardinality({i \in DOMAIN r.result.warnings :
                               IsUnknownTypeWarning(r.result.warnings[i])}) = 1

\* A message names an id when the id is one of its fragments.
Names(msg, id) == \E i \in DOMAIN msg : msg[i] = id

\* C7 (fatal defect detection): a field with CellID and Controltype but no
\* Path makes parseTemplate fail, with an error that names the field's id.
C7_MissingPathNamesField ==
    \A r \in returned :
        ~FromCache(r.result) /\ Docs[r.doc].wellFormed /\ Docs[r.doc].root = "Sections" =>
            \A i \in DOMAIN docCellElems(Docs[r.doc]) :
                LET cellElement == docCellElems(Docs[r.doc])[i]
                IN  (/\ cellElement.CellID # NoAttr
                     /\ cellElement.Controltype # NoText
                     /\ cellElement.Path = NoAttr) =>
                        /\ ~r.result.success
                        /\ \E e \in DOMAIN r.result.errors :
                              Names(r.result.errors[e], cellElement.CellID)

\* The defects of the fields of a document in document order: for each
\* defective <Cell>, the first attribute it lacks.
RECURSIVE DefectsInOrder(_)
DefectsInOrder(cellElements) ==
    IF cellElements = <<>> THEN <<>>
    ELSE (IF IsDefective(Head(cellElements))
          THEN <<parseFieldThrows(Head(cellElements))>> ELSE <<>>)
            \o DefectsInOrder(Tail(cellElements))

IsFieldError(msg) ==
    msg[1] \in {"Error parsing cell: ", "Error parsing row info cell: "}

\* The per-field errors of an errors list, in order, without their prefix.
RECURSIVE FieldErrorsOf(_)
FieldErrorsOf(errors) ==
    IF errors = <<>> THEN <<>>
    ELSE (IF IsFieldError(Head(errors)) THEN <<Head(errors)[2]>> ELSE <<>>)
            \o FieldErrorsOf(Tail(errors))

\* C8: per-field fatal errors are collected, not thrown: every defective
\* field of every section yields exactly one error, the errors come in
\* document order, and the parse then fails.
C8_OneErrorPerDefectiveField ==
    \A r \in returned :
        ~FromCache(r.result) /\ Docs[r.doc].wellFormed /\ Docs[r.doc].root = "Sections" =>
            /\ FieldErrorsOf(r.result.errors) = DefectsInOrder(docCellElems(Docs[r.doc]))
            /\ HasFatalDefect(Docs[r.doc]) => ~r.result.success

\* ------------------------------------------------------------------------
\* Claims about validateForm and exportToXML (checked under SpecEngine)
\* ------------------------------------------------------------------------

\* The (path, value) pairs of the form data that hold a value.
valuesOf(data) == {<<p, data[p]>> : p \in {q \in DOMAIN data : data[q] # NoText}}

\* What re-reading an exported document yields for a path: the value the
\* document holds for it, NoText when it holds none.
readBack(xmlContent, p) ==
    IF \E pv \in xmlContent.values : pv[1] = p
    THEN (CHOOSE pv \in xmlContent.values : pv[1] = p)[2]
    ELSE NoText

\* The form data has no defect: validateForm on it alone reports it valid.
DefectFree(data) == validationReport(structure, data, data).isValid

\* C4 (round-trip): for defect-free form data F, the exported document read
\* back yields F's value for every field of the template that F holds a
\* value for, and the export is marked compliant.
C4_RoundTrip ==
    \A i \in DOMAIN lastExport :
        LET e == lastExport[i]
        IN  (~e.edited /\ DefectFree(e.data)) =>
               /\ e.result.htkkCompliant
               /\ \A p \in PathsOf(structure) :
                     e.data[p] # NoText => readBack(e.result.xmlContent, p) = e.data[p]

\* C5: whenever the exported document does not hold every value of the
\* form data, the result has htkkCompliant = false and reports a mismatch.
C5_MismatchReported ==
    \A i \in DOMAIN lastExport :
        LET e == lastExport[i]
        IN  (~e.edited /\ ~(valuesOf(e.data) \subseteq e.result.xmlContent.values)) =>
               /\ ~e.result.htkkCompliant
               /\ e.result.errors \o e.result.warnings # <<>>

TenDigits == <<"0", "1", "2", "3", "4", "5", "6", "7", "8", "9">>

\* The number of field errors a report lists for a path.
fieldErrorCount(report, p) ==
    IF p \in DOMAIN report.fieldErrors THEN Len(report.fieldErrors[p]) ELSE 0

\* C9 (tax-code format): for a TAX_CODE field that is not required,
\* validateForm reports no error for "0123456789" and exactly one field
\* error for "123".
C9_TaxCodeFormat ==
    \A i \in DOMAIN lastReport :
        LET v == lastReport[i]
        IN  ~v.edited =>
              \A k \in DOMAIN structureFields(structure) :
                 LET field == structureFields(structure)[k]
                 IN  (field.type = TAX_CODE /\ ~field.required) =>
                        /\ v.data[field.path] = TenDigits
                              => fieldErrorCount(v.report, field.path) = 0
                        /\ v.data[field.path] = <<"1", "2", "3">>
                              => fieldErrorCount(v.report, field.path) = 1

\* The field of a form structure with a given cell id: <<>> or <<field>>.
fieldById(fs, id) ==
    LET hit == {k \in DOMAIN structureFields(fs) : structureFields(fs)[k].cellId = id}
    IN  IF hit = {} THEN <<>> ELSE <<structureFields(fs)[CHOOSE k \in hit : TRUE]>>

\* A WARD_DROPDOWN field holds a value while its parent field holds none.
WardWithoutParent(data) ==
    \E k \in DOMAIN structureFields(structure) :
        LET field == structureFields(structure)[k]
        IN  /\ field.type = WARD_DROPDOWN
            /\ data[field.path] # NoText
            /\ fieldById(structure, field.parentCell) # <<>>
            /\ data[fieldById(structure, field.parentCell)[1].path] = NoText

\* C10 (dependent dropdown guard): a ward value without a value of its
\* parent field yields exactly one structural/compliance error.
C10_DependentDropdownGuard ==
    \A i \in DOMAIN lastReport :
        LET v == lastReport[i]
        IN  (~v.edited /\ WardWithoutParent(v.data)) =>
               Len(v.report.crossFieldErrors) + Len(v.report.complianceErrors) = 1

\* ------------------------------------------------------------------------
\* Claims about the rows of dynamic sections (checked under SpecRows)
\* ------------------------------------------------------------------------

\* The structural errors of a report: cross-field and compliance errors.
structuralErrorCount(report) ==
    Len(report.crossFieldErrors) + Len(report.complianceErrors)

\* The dynamic sections of a form whose submitted rows exceed a non-zero
\* maxRows.
OverfullSections(fs, rows) ==
    {i \in DOMAIN fs.template.sections :
        /\ fs.template.sections[i].dynamic
        /\ fs.sections[i].validation.maxRows # <<>>
        /\ fs.sections[i].validation.maxRows[1] # 0
        /\ Len(rows[fs.template.sections[i].tablePath])
              > fs.sections[i].validation.maxRows[1]}

\* C11 (maxRows enforcement): validateForm reports exactly one structural
\* error for each dynamic section whose submitted row count exceeds its
\* non-zero maxRows, and no row-count error when maxRows = 0.
C11_MaxRowsEnforced ==
    \A i \in DOMAIN lastReport :
        LET v == lastReport[i]
        IN  ~v.edited =>
               structuralErrorCount(v.report)
                  = Cardinality(OverfullSections(structure, v.dynamicData))

\* ------------------------------------------------------------------------
\* Claims about reports under rules (checked under SpecRules)
\* ------------------------------------------------------------------------

\* The reports validateForm has returned: to its caller, or to exportToXML.
Reports ==
    {lastReport[i].report : i \in DOMAIN lastReport}
        \cup {engineOp.report[i] : i \in DOMAIN engineOp.report}

\* The number of errors a report lists over its passes.
listedErrors(report) ==
    Cardinality(DOMAIN report.fieldErrors) + Len(report.businessRuleErrors)
        + Len(report.crossFieldErrors) + Len(report.complianceErrors)
        + Len(report.missingRequiredFields)

\* C12: in every report of validateForm, isValid is true exactly when
\* errorCount is 0, which is exactly when no pass lists an error; warnings
\* alone never make isValid false.
C12_ValidIffNoErrors ==
    \A report \in Reports :
        /\ report.isValid <=> report.errorCount = 0
        /\ report.errorCount = 0 <=> listedErrors(report) = 0

\* A report with warnings and no error, which is valid.
C12_Witness ==
    \E report \in Reports :
        report.warningCount > 0 /\ report.errorCount = 0 /\ report.isValid

\* C13: the score of every returned report is 100 minus a fixed weight per
\* counted error and a smaller fixed weight per counted warning, floored at
\* 0 and never above 100; so a report with one more error or warning never
\* has a higher score.
C13_ScoreFormula ==
    \A report \in Reports :
        /\ report.validationScore = scoreOf(report.errorCount, report.warningCount)
        /\ report.validationScore \in 0..100
        /\ \A other \in Reports :
              (/\ other.errorCount >= report.errorCount
               /\ other.warningCount >= report.warningCount)
                  => other.validationScore <= report.validationScore

\* The number of elements of a sequence equal to x.
Occurrences(seq, x) == Cardinality({i \in DOMAIN seq : seq[i] = x})

fieldIdsOf(template) ==
    {templateFields(template)[i].cellId : i \in DOMAIN templateFields(template)}

\* The parentCell / childCell references of a template that name no field
\* of it: <<field id, referenced id>>.
DanglingReferences(template) ==
    LET fields == templateFields(template)
    IN  {<<fields[i].cellId, fields[i].parentCell>> :
            i \in {j \in DOMAIN fields :
                     /\ fields[j].parentCell # NoAttr
                     /\ fields[j].parentCell \notin fieldIdsOf(template)}}
        \cup
        {<<fields[i].cellId, fields[i].childCell>> :
            i \in {j \in DOMAIN fields :
                     /\ fields[j].childCell # NoAttr
                     /\ fields[j].childCell \notin fieldIdsOf(template)}}

\* The ids reached from id by following parentCell n times at most.
RECURSIVE Ancestors(_, _, _)
Ancestors(template, id, n) ==
    LET fields == templateFields(template)
        parents == {fields[i].parentCell :
                       i \in {j \in DOMAIN fields :
                                fields[j].cellId = id /\ fields[j].parentCell # NoAttr}}
    IN  IF n = 0 THEN {}
        ELSE parents \cup UNION {Ancestors(template, q, n - 1) : q \in parents}

\* The fields that are transitively their own parent.
CyclicFields(template) ==
    {id \in fieldIdsOf(template) :
        id \in Ancestors(template, id, Cardinality(fieldIdsOf(template)))}

\* The least number of structural errors the dependency defects call for:
\* one per dangling reference, and one when there is a cycle.
DependencyDefects(template) ==
    Cardinality(DanglingReferences(template))
        + (IF CyclicFields(template) = {} THEN 0 ELSE 1)

\* C15: for a template with a parentCell or childCell that names an absent
\* field, or with a dependency cycle, validation reports a structural error
\* for each defect, and the template is never reported valid or compliant.
C15_DependencyDefectsReported ==
    DependencyDefects(structure.template) > 0 =>
        /\ \A i \in DOMAIN lastReport :
              /\ structuralErrorCount(lastReport[i].report)
                    >= DependencyDefects(structure.template)
              /\ ~lastReport[i].report.isValid
              /\ ~validateTemplate(structure.template).isValid
        /\ \A i \in DOMAIN lastExport : ~lastExport[i].result.htkkCompliant

\* A <Cell> of a NUMBER field whose MinValue is greater than its MaxValue.
IsMinOverMax(cellElement) ==
    /\ ~IsDefective(cellElement)
    /\ ParseInt(cellElement.Controltype) = NUMBER
    /\ ParseInt(cellElement.MinValue) # NaN
    /\ ParseInt(cellElement.MaxValue) # NaN
    /\ ParseInt(cellElement.MinValue) > ParseInt(cellElement.MaxValue)

\* C16: a template whose NUMBER field has minValue > maxValue still parses
\* successfully, but validateTemplate reports the defect and returns a
\* report that is not valid (isValid = false, errorCount >= 1).
C16_MinOverMaxInvalid ==
    \A r \in returned :
        \A i \in DOMAIN docCellElems(Docs[r.doc]) :
            LET cellElement == docCellElems(Docs[r.doc])[i]
            IN  (/\ ~FromCache(r.result)
                 /\ ~HasFatalDefect(Docs[r.doc])
                 /\ IsMinOverMax(cellElement)) =>
                    /\ r.result.success
                    /\ r.result.template # <<>>
                    /\ LET report == validateTemplate(r.result.template[1])
                       IN  /\ cellElement.Path \in DOMAIN report.fieldErrors
                           /\ ~report.isValid
                           /\ report.errorCount >= 1

\* ------------------------------------------------------------------------
\* C17: no exception leaves the core (checked under SpecRules)
\* ------------------------------------------------------------------------

HasMessage(msgs, prefix) == \E i \in DOMAIN msgs : msgs[i][1] = prefix

\* A registered business rule whose validator throws on the data.
BusinessRuleThrows(data) ==
    \E i \in DOMAIN rulesFor(structure.template.formCode) :
        LET rule == rulesFor(structure.template.formCode)[i]
        IN  rule.type = "business" /\ validatorOutcome(rule, data) = "throws"

\* The documents of the conditions of parseTemplate: an unknown control-type
\* code, another root, malformed XML (each parsed on a cache miss).
ExpectedConditionDocs == {2, 5, 6}

\* A ParseResult is one of the two shapes parseTemplate returns.
IsParseResult(result) ==
    /\ result.success \in BOOLEAN
    /\ result.success <=> result.template # <<>>
    /\ result.success <=> result.errors = <<>>

\* parseTemplate has returned a ParseResult for a document: a failure for
\* malformed XML and for another root, a success for an unknown code.
ReturnsParseResult(doc, result) ==
    /\ IsParseResult(result)
    /\ (~doc.wellFormed \/ doc.root # "Sections") => ~result.success
    /\ OneUnknownCode(doc) => result.success

templateOf(d, f) ==
    makeTemplate(Docs[d].Version, f, parseSectionsFrom(Docs[d].sections, <<>>, <<>>).sections)

\* C18: parseTemplate returns a cached template only if that template was
\* parsed from exactly the same xmlContent and formCode: requests that
\* differ in source or in formCode never share a cache entry.
C18_CacheKeyedBySource ==
    \A r \in returned :
        FromCache(r.result) => r.result.template = <<templateOf(r.doc, r.formCode)>>

\* ------------------------------------------------------------------------
\* C19: validateForm and exportToXML leave their inputs alone (checked
\* under SpecEngine)
\* ------------------------------------------------------------------------

ControlTypes ==
    {TEXT, CHECKBOX, DEPENDENT_DROPDOWN, DATE, NUMBER, TAX_CODE, COUNTRY_DROPDOWN,
     PROVINCE_DROPDOWN, WARD_DROPDOWN, HIDDEN}

\* The variant a control-type code is to resolve to.
VariantOf(code) == IF code \in ControlTypes THEN code ELSE TEXT

\* The fields of a returned template, with rowInfo fields.
allFieldsOf(section) ==
    section.cells \o (IF section.rowInfo = <<>> THEN <<>> ELSE section.rowInfo[1])

\* C20: every code of the control-type catalogue (0, 2, 6, 14, 16, 26, 56,
\* 100, 101 and 999) is resolved by the parser to its own variant of
\* HTKKControlType; only codes outside the catalogue fall back to TEXT.
C20_CatalogueResolved ==
    \A r \in returned :
        \A t \in DOMAIN r.result.template :
            \A k \in DOMAIN docCellElems(Docs[r.doc]) :
                LET cellElement == docCellElems(Docs[r.doc])[k]
                    fields == FlatMap(allFieldsOf, r.result.template[t].sections)
                IN  \A i \in DOMAIN fields :
                        fields[i].cellId = cellElement.CellID =>
                            fields[i].controlType
                                = VariantOf(ParseInt(cellElement.Controltype))

\* ------------------------------------------------------------------------
\* C21 - C24: templates parseTemplate returns (checked under Spec)
\* ------------------------------------------------------------------------

\* A field is a dropdown that depends on a parent field.
IsDependentType(field) == field.controlType \in {DEPENDENT_DROPDOWN, WARD_DROPDOWN}

\* C21: validateTemplate records an error for every field of control type
\* DEPENDENT_DROPDOWN or WARD_DROPDOWN that declares no parentCell.
C21_DropdownParentRequired ==
    \A r \in returned :
        \A t \in DOMAIN r.result.template :
            LET template == r.result.template[t]
                fields == templateFields(template)
            IN  \A i \in DOMAIN fields :
                    (IsDependentType(fields[i]) /\ fields[i].parentCell = NoAttr) =>
                        fields[i].path \in DOMAIN validateTemplate(template).fieldErrors

\* The cell ids of the fields of a template, of static sections and of row
\* templates, in order.
fieldCellId(field) == field.cellId

templateCellIds(template) == MapSeq(fieldCellId, FlatMap(allFieldsOf, template.sections))

\* C22: in every template a successful parseTemplate returns, no two fields
\* (of static sections and row templates) have the same cellId.
C22_UniqueCellIds ==
    \A r \in returned :
        r.result.success =>
            \A t \in DOMAIN r.result.template :
                LET ids == templateCellIds(r.result.template[t])
                IN  \A i, j \in DOMAIN ids : ids[i] = ids[j] => i = j

\* C23: every template a successful parseTemplate returns, whatever the
\* configuration of the parser (validateOnParse on or off), has at least
\* one section.
C23_AtLeastOneSection ==
    \A r \in returned :
        r.result.success =>
            /\ r.result.template # <<>>
            /\ \A t \in DOMAIN r.result.template : r.result.template[t].sections # <<>>

\* C24: when the root element of the source is not <Sections>, parseTemplate
\* returns success = false, no template and a non-empty errors list; it
\* parses no section and leaves the template cache as it was.
C24_WrongRootRejected ==
    /\ \A r \in returned :
          (Docs[r.doc].wellFormed /\ Docs[r.doc].root # "Sections") =>
              /\ ~r.result.success
              /\ r.result.template = <<>>
              /\ r.result.errors # <<>>
    /\ \A c \in Callers :
          call[c].pc # "idle" => Docs[call[c].doc].root = "Sections"
    /\ \A k \in DOMAIN templateCache :
          \E q \in Requests :
              /\ Docs[q[1]].wellFormed /\ Docs[q[1]].root = "Sections"
              /\ k = keyOf(q[1], q[2])
              /\ templateCache[k] = templateOf(q[1], q[2])

\* ------------------------------------------------------------------------
\* C26, C27: results of exportToXML and validateForm (checked under
\* SpecEngine)
\* ------------------------------------------------------------------------

\* C26: every result of exportToXML with success = true has an empty errors
\* list; an export of form data that fails validateForm is never reported
\* successful.
C26_SuccessWithoutErrors ==
    \A i \in DOMAIN lastExport :
        LET e == lastExport[i]
        IN  e.result.success =>
               /\ e.result.errors = <<>>
               /\ ~e.edited => validationReport(structure, e.data, e.data).isValid


\* The number of error entries a report lists.
listedErrorEntries(report) ==
    SumOfLengths(report.fieldErrors, DOMAIN report.fieldErrors)
        + Len(report.businessRuleErrors) + Len(report.crossFieldErrors)
        + Len(report.missingRequiredFields)

\* C27: in every report of validateForm, errorCount is the total number of
\* error entries the report lists (all fieldErrors lists, businessRuleErrors,
\* crossFieldErrors and missingRequiredFields), also when two fields share
\* a path.
C27_ErrorCountMatchesEntries ==
    \A report \in Reports : report.errorCount = listedErrorEntries(report)

\* C25: every ParseResult that parseTemplate or loadTemplate has returned
\* has success true exactly when its errors are empty and exactly when its
\* template is present.
C25_ParseResultShape ==
    /\ \A r \in returned : IsParseResult(r.result)
    /\ \A r \in loaded : IsParseResult(r.result)

\* C25: loadTemplate has returned a template from the cache and a failure
\* of the fetch, parseTemplate has returned a success and a failure that
\* lists errors.
C25_Witness ==
    /\ \E r \in loaded : r.result = loadedFromCache(r.formCode)
    /\ loadFailed \in {r.result : r \in loaded}
    /\ \E r \in returned : r.result.success
    /\ \E r \in returned : ~r.result.success /\ r.result.errors # <<>>

\* C28: a loadTemplate call of the engine with an explicit version that
\* returns a template returns one of the requested form code and of the
\* requested version, and the memory map holds under formCode_version a
\* template of that form code and version.
C28_RequestedVersionLoaded ==
    /\ \A e \in engineLoaded :
          (e.version # NoAttr /\ ~e.threw) =>
              /\ e.template # <<>>
              /\ e.template[1].formCode = e.formCode
              /\ e.template[1].version = e.version
    /\ \A key \in DOMAIN templates :
          key[2] # "latest" =>
              /\ templates[key].formCode = key[1]
              /\ templates[key].version = key[2]

\* The form code half of C28: what loadTemplate of the engine returns and
\* stores has the form code of the request.
C28_RequestedFormCodeLoaded ==
    /\ \A e \in engineLoaded :
          ~e.threw => e.template # <<>> /\ e.template[1].formCode = e.formCode
    /\ \A key \in DOMAIN templates : templates[key].formCode = key[1]

\* The number of assignments to field.value an applyFieldMapping call makes
\* on a form: one for every field mapping that is valid and whose target
\* path is the path of a field.
valuesWritten(formStructure, mappingResult) ==
    Cardinality({i \in DOMAIN mappingResult.fieldMappings :
                    /\ mappingResult.fieldMappings[i].isValid
                    /\ mappingResult.fieldMappings[i].targetPath \in PathsOf(formStructure)})

\* The paths a mapping result holds a valid field mapping for.
validTargets(mappingResult) ==
    {mappingResult.fieldMappings[i].targetPath :
        i \in {j \in DOMAIN mappingResult.fieldMappings :
                  mappingResult.fieldMappings[j].isValid}}

\* The fields of the form other than those a valid mapping targets are as
\* they were before the call.
othersUnchanged(before, after, mappingResult) ==
    /\ Len(structureFields(after)) = Len(structureFields(before))
    /\ \A i \in DOMAIN structureFields(before) :
          structureFields(before)[i].path \notin validTargets(mappingResult)
              => structureFields(after)[i] = structureFields(before)[i]

\* C29: in the result of applyFieldMapping fieldsUpdated is the number of
\* field values the call has written, and the value of every field that no
\* valid mapping targets is unchanged.
C29_FieldsUpdatedCountsWrites ==
    lastAutoFill # <<>> =>
        /\ lastAutoFill[1].result.fieldsUpdated
              = valuesWritten(lastAutoFill[1].before, lastAutoFill[1].mapping)
        /\ othersUnchanged(lastAutoFill[1].before, structure, lastAutoFill[1].mapping)

\* C29 for mapping results without dynamicMappings: the count and the frame
\* of the loop over fieldMappings.
C29_FieldMappingsCounted ==
    lastAutoFill # <<>> =>
        /\ lastAutoFill[1].mapping.dynamicMappings = <<>> =>
              lastAutoFill[1].result.fieldsUpdated
                  = valuesWritten(lastAutoFill[1].before, lastAutoFill[1].mapping)
        /\ othersUnchanged(lastAutoFill[1].before, structure, lastAutoFill[1].mapping)

\* deleteDocument has been called for the file, or is about to be: a job, a
\* timer, a call in progress or a performR2Delete for it.
deletionArranged(fileId) ==
    \/ \E i \in DOMAIN cleanupJobs : cleanupJobs[i].fileId = fileId
    \/ \E i \in DOMAIN jobsToRun : jobsToRun[i].fileId = fileId
    \/ \E d \in deleting : d.fileId = fileId
    \/ \E bucket \in {bucketName(tier) : tier \in PrivacyTiers} :
          <<fileId, bucket>> \in r2Deleted

\* The uploads that returned success under a tier of a set.
uploadedUnder(tiers) ==
    {fileId \in DOMAIN uploads :
        uploads[fileId].pc = "done" /\ uploads[fileId].privacyTier \in tiers}

\* C30: every document uploaded successfully under a tier with autoDelete
\* (basic, premium, enterprise) has a cleanup job or a delete under way or
\* done.
C30_AutoDeleteArranged ==
    \A fileId \in uploadedUnder({tier \in PrivacyTiers :
                                   getPrivacyConfig(tier).autoDelete}) :
        deletionArranged(fileId)

\* C30 for the tiers with a positive deleteAfterSeconds: their uploads get
\* a cleanup job, and once an hour has passed since the time of deletion,
\* performR2Delete has been called for the file.
C30_TimedTiersDeleted ==
    \A fileId \in uploadedUnder({tier \in PrivacyTiers :
                                   getPrivacyConfig(tier).deleteAfterSeconds > 0}) :
        /\ deletionArranged(fileId)
        /\ now > uploads[fileId].autoDeleteAt[1] =>
              \E bucket \in {bucketName(tier) : tier \in PrivacyTiers} :
                  <<fileId, bucket>> \in r2Deleted

\* A document is deleted from the bucket performR2Upload put it into.
C30_DeletedFromItsBucket ==
    \A fileId \in DOMAIN uploads :
        (\E bucket \in {bucketName(tier) : tier \in PrivacyTiers} :
              <<fileId, bucket>> \in r2Deleted)
            => <<fileId, bucketName(uploads[fileId].privacyTier)>> \in r2Deleted

=============================================================================
